---- MODULE Spec2Model ----
(***************************************************************************)
(* The document/vector store of RAG-GO (package storage, VectorStore) as a *)
(* state machine.  The key-value store is db (key "doc:"+id -> the JSON    *)
(* written for the document), the vector directory is files (id -> the     *)
(* bytes of <id>.vec).                                                     *)
(*                                                                         *)
(* Numbers.  A float32 component is an integer count of 1/Scale units, so  *)
(* Scale stands for 1.0.  Similarity scores are kept as the exact triple   *)
(* (dot, normA, normB) and compared as real numbers; float32 rounding of   *)
(* the quotient is not modelled.                                           *)
(* Strings.  A Go string is a sequence of units; a unit is a run of valid  *)
(* UTF-8 text, the unit Invalid (a byte that is not valid UTF-8) or the    *)
(* unit Replacement (U+FFFD).                                              *)
(***************************************************************************)
EXTENDS Integers, Sequences, FiniteSets, TLC

\* ---- bounds ----
Dim == 2
MaxLimit == 2
Scale == 2

Ids == {1, 2}               \* two document ids, numbered in the key order of the store
Limits == 0..MaxLimit

\* ---- strings and documents ----
Invalid == "\\xff"
Replacement == "\\ufffd"

ChatBody ==
  [Content |-> <<"user: hi">>,
   Metadata |-> [Source |-> <<"chat">>, Title |-> <<"T">>,
                 Tags |-> << <<"chat">>, <<"conversation">> >>,
                 Custom |-> [chat_id |-> <<"c1">>],
                 ChunkID |-> 0, ChunkNum |-> 1]]

FileBody ==
  [Content |-> <<"Alpha.", Invalid>>,
   Metadata |-> [Source |-> <<"a.txt">>, Title |-> <<"a">>,
                 Tags |-> << <<"txt">> >>,
                 Custom |-> [upload_time |-> <<"t">>],
                 ChunkID |-> 0, ChunkNum |-> 1]]

Bodies == {ChatBody, FileBody}

Document(id, body) ==
  [ID |-> id, Content |-> body.Content, Metadata |-> body.Metadata]

Documents == {Document(id, b) : id \in Ids, b \in Bodies}

\* ---- vectors ----
ConstVec(n, c) == [i \in 1..n |-> c]
BasisVec(n, j, c) == [i \in 1..n |-> IF i = j THEN c ELSE 0]

\* The vectors handed to AddDocument: 1.0 on the first axis, 1.0 everywhere,
\* the fraction 1/Scale everywhere, and one of length Dim+1.
Vectors ==
  {BasisVec(Dim, 1, Scale), ConstVec(Dim, Scale), ConstVec(Dim, 1),
   ConstVec(Dim + 1, Scale)}

\* The query vectors handed to search: 1.0 on the first axis, 1.0 on the last
\* axis, a negative fraction on the first axis, and the zero vector.
Queries ==
  {BasisVec(Dim, 1, Scale), BasisVec(Dim, Dim, Scale), BasisVec(Dim, 1, -1),
   ConstVec(Dim, 0)}

Filters == {"nil", "chat"}
IOs == {"ok", "dbFail", "fileFail"}

\* ---- concurrent callers ----
Searchers == {1}            \* goroutines that call the read operations
Writers == {2, 3}           \* goroutines that call AddDocument and DeleteDocument
Procs == Searchers \cup Writers

\* What the concurrent callers pass in.
ConcDocuments == {Document(id, ChatBody) : id \in Ids}
ConcVectors == {BasisVec(Dim, 1, Scale)}
ConcQueries == {BasisVec(Dim, 1, Scale)}
ConcLimits == {0, 1}
ConcFilters == {"nil"}

VARIABLES db, files, last, pc, arg, loc, readerCount, readerWait, wOwner

storeVars == <<db, files>>
lockVars == <<readerCount, readerWait, wOwner>>
concVars == <<pc, arg, loc, readerCount, readerWait, wOwner>>

\* The chat archive (package storage, ChatStore): the character directories
\* under <basePath>/chats, the files in them (path -> JSON value written),
\* the wall clock read by time.Now(), and the last operation with its result.
VARIABLES chatDirs, chatFiles, now, chatLast

archiveVars == <<chatDirs, chatFiles, now, chatLast>>

\* The HTTP handlers (package api): the model path of the embedding model
\* they were registered with, the number of ids uuid.New() has handed out,
\* and the last request served with its response and the calls it made.
VARIABLES modelPath, uuidCount, served

handlerVars == <<modelPath, uuidCount, served>>

\* closed: vs.db has been closed.  chunked: the last call of ChunkText with
\* what it returned.
VARIABLES closed, chunked

\* The callers of the chat archive running concurrently under cs.mutex: where
\* each one is in its call, what it was called with, what it has read so far,
\* the goroutine holding the write lock (0: none) and those holding a read
\* lock.
VARIABLES chatPc, chatArg, chatLoc, chatWriter, chatReaders

chatConcVars == <<chatPc, chatArg, chatLoc, chatWriter, chatReaders>>
restVars == <<closed, chunked, chatConcVars>>
notStoreVars == <<archiveVars, handlerVars, restVars>>
vars == <<db, files, last, pc, arg, loc, readerCount, readerWait, wOwner,
          chatDirs, chatFiles, now, chatLast, modelPath, uuidCount, served,
          closed, chunked, chatPc, chatArg, chatLoc, chatWriter, chatReaders>>

\* ---- pure helpers ----
RECURSIVE SumTo(_, _)
SumTo(f, n) == IF n = 0 THEN 0 ELSE f[n] + SumTo(f, n - 1)

Sgn(x) == IF x > 0 THEN 1 ELSE IF x < 0 THEN -1 ELSE 0

MapSeq(s, Op(_)) == [i \in 1..Len(s) |-> Op(s[i])]

\* A write that leaves nothing but the key written.
PutAlone(f, k, v) == [x \in {k} |-> v]
Put(f, k, v) == [x \in DOMAIN f \cup {k} |-> IF x = k THEN v ELSE f[x]]
Drop(f, k) == [x \in DOMAIN f \ {k} |-> f[x]]

\* The elements of a set of integers in increasing order (the iteration order
\* of the key-value store over the keys "doc:"+id).
RECURSIVE KeyOrder(_)
KeyOrder(S) ==
  IF S = {} THEN <<>>
  ELSE LET m == CHOOSE x \in S : \A y \in S : x <= y
       IN <<m>> \o KeyOrder(S \ {m})

\* ---- encoding/json on Document ----
\* json.Marshal writes every string coerced to valid UTF-8: each invalid byte
\* becomes U+FFFD.
ToValidUTF8(s) == [i \in 1..Len(s) |-> IF s[i] = Invalid THEN Replacement ELSE s[i]]

\* Marshal with the Tags field left out of the JSON.
MarshalWithoutTags(doc) ==
  [ID |-> doc.ID,
   Content |-> ToValidUTF8(doc.Content),
   Metadata |->
     [Source |-> ToValidUTF8(doc.Metadata.Source),
      Title |-> ToValidUTF8(doc.Metadata.Title),
      Tags |-> <<>>,
      Custom |-> [k \in DOMAIN doc.Metadata.Custom |-> ToValidUTF8(doc.Metadata.Custom[k])],
      ChunkID |-> doc.Metadata.ChunkID,
      ChunkNum |-> doc.Metadata.ChunkNum]]

Marshal(doc) ==
  [ID |-> doc.ID,
   Content |-> ToValidUTF8(doc.Content),
   Metadata |->
     [Source |-> ToValidUTF8(doc.Metadata.Source),
      Title |-> ToValidUTF8(doc.Metadata.Title),
      Tags |-> MapSeq(doc.Metadata.Tags, ToValidUTF8),
      Custom |-> [k \in DOMAIN doc.Metadata.Custom |-> ToValidUTF8(doc.Metadata.Custom[k])],
      ChunkID |-> doc.Metadata.ChunkID,
      ChunkNum |-> doc.Metadata.ChunkNum]]

\* json.Unmarshal of what Marshal wrote gives back the fields of the JSON value.
Unmarshal(docData) == docData

\* ---- the vector file format ----
\* uint32(v) of a float32: the fraction is discarded (truncation towards zero).
\* Every component of Vectors is above -1.0, so the result is representable.
Uint32(v) == IF v >= 0 THEN v \div Scale ELSE -((-v) \div Scale)

Byte(bits, shift) == (bits \div (2 ^ shift)) % 256

EncodeVector(vector) ==
  [n \in 1..(Len(vector) * 4) |->
     Byte(Uint32(vector[((n - 1) \div 4) + 1]), 8 * ((n - 1) % 4))]

\* float32(bits) of a uint32: the integer as a float (exact below 2^24).
Float32(bits) == bits * Scale

DecodeVector(vectorData) ==
  [i \in 1..(Len(vectorData) \div 4) |->
     Float32(vectorData[(i - 1) * 4 + 1]
             + vectorData[(i - 1) * 4 + 2] * (2 ^ 8)
             + vectorData[(i - 1) * 4 + 3] * (2 ^ 16)
             + vectorData[(i - 1) * 4 + 4] * (2 ^ 24))]

\* ---- similarity ----
ZeroScore == [dot |-> 0, normA |-> 1, normB |-> 1]

cosineSimilarity(a, b) ==
  IF Len(a) # Len(b) THEN ZeroScore
  ELSE LET n == Len(a)
           dotProduct == SumTo([i \in 1..n |-> a[i] * b[i]], n)
           normA == SumTo([i \in 1..n |-> a[i] * a[i]], n)
           normB == SumTo([i \in 1..n |-> b[i] * b[i]], n)
       IN IF normA = 0 \/ normB = 0 THEN ZeroScore
          ELSE [dot |-> dotProduct, normA |-> normA, normB |-> normB]

\* s > t for the scores s.dot / (sqrt(s.normA) * sqrt(s.normB)), as reals.
Greater(s, t) ==
  Sgn(s.dot) * s.dot * s.dot * t.normA * t.normB
    > Sgn(t.dot) * t.dot * t.dot * s.normA * s.normB

\* ---- reads of the store ----
GetDocumentIn(d, id) ==
  IF id \in DOMAIN d
    THEN [err |-> "nil", docs |-> <<Unmarshal(d[id])>>]
    ELSE [err |-> "not_found", docs |-> <<>>]

GetVectorIn(f, id) ==
  IF id \in DOMAIN f
    THEN [err |-> "nil", vector |-> DecodeVector(f[id])]
    ELSE [err |-> "read_vector", vector |-> <<>>]

ListDocumentsIn(d) == MapSeq(KeyOrder(DOMAIN d), LAMBDA id : Unmarshal(d[id]))

\* The filter handleChatSearch passes: the document has the tag "chat".
Satisfies(filter, doc) ==
  filter = "nil" \/ \E i \in 1..Len(doc.Metadata.Tags) : doc.Metadata.Tags[i] = <<"chat">>

\* sort.Slice left out: the similarities stay in key order.
SortOutcomesUnsorted(sims) == {sims}

\* The orders of the elements of sims at the places S in which no element is
\* greater than an earlier one: a greatest element first, then the others in
\* such an order.
RECURSIVE SortedFrom(_, _)
SortedFrom(sims, S) ==
  IF S = {} THEN {<<>>}
  ELSE UNION {{<<sims[i]>> \o rest : rest \in SortedFrom(sims, S \ {i})} :
                i \in {k \in S : \A j \in S :
                                   ~Greater(sims[j].similarity, sims[k].similarity)}}

\* sort.Slice with less(i, j) = similarity[i] > similarity[j]: the result is
\* some permutation in which no element is greater than an earlier one; the
\* order of equal elements is not specified.
SortOutcomes(sims) == SortedFrom(sims, 1..Len(sims))

\* sort.Slice when it keeps equal elements in the order it found them (what
\* its insertion sort does on a short slice): of the greatest remaining
\* elements the one scanned first comes first.
RECURSIVE StableFrom(_, _)
StableFrom(sims, S) ==
  IF S = {} THEN <<>>
  ELSE LET top == {k \in S : \A j \in S :
                              ~Greater(sims[j].similarity, sims[k].similarity)}
           i == CHOOSE k \in top : \A j \in top : k <= j
       IN <<sims[i]>> \o StableFrom(sims, S \ {i})

StableSort(sims) == StableFrom(sims, 1..Len(sims))

\* The similarities SearchSimilarWithFilter computes, in the order of its scan
\* over the keys: a document whose vector GetVector cannot read is skipped.
Similarities(d, f, queryVector) ==
  LET docIDs == KeyOrder(DOMAIN d)
      readable == SelectSeq(docIDs, LAMBDA id : GetVectorIn(f, id).err = "nil")
  IN MapSeq(readable, LAMBDA id :
       [id |-> id,
        similarity |-> cosineSimilarity(queryVector, GetVectorIn(f, id).vector)])

\* The results SearchSimilarWithFilter can return.  The filter argument is not
\* used by the body of the function.
SearchSimilarWithFilterIn(d, f, queryVector, limit, filter) ==
  LET cut(s) == IF limit > 0 /\ Len(s) > limit THEN SubSeq(s, 1, limit) ELSE s
      found(s) == SelectSeq(s, LAMBDA x : GetDocumentIn(d, x.id).err = "nil")
  IN {[docs |-> MapSeq(found(cut(s)), LAMBDA x : GetDocumentIn(d, x.id).docs[1]),
       scores |-> MapSeq(found(cut(s)), LAMBDA x : x.similarity)]
        : s \in SortOutcomes(Similarities(d, f, queryVector))}

\* ---- package processor: chunking ----
\* A text is a sequence of tokens.  A token is a space, a newline, a sentence
\* delimiter, or a word: a run of bytes holding none of these.  Words too
\* long to write out are named and have their length in LongWords.
Space == " "
Newline == "\\n"
Word600 == "<600 letters>"
Word1200 == "<1200 letters>"
LongWords == [w \in {Word600, Word1200} |-> IF w = Word600 THEN 600 ELSE 1200]
WideDelimiters == <<"\\uff1b", "\\u3002", "\\uff01", "\\uff1f">>
TitleLabel == "\\u804a\\u5929\\u6807\\u9898:"
UserLabel == "\\u7528\\u6237:"
AssistantLabel == "\\u52a9\\u624b:"
SystemLabel == "\\u7cfb\\u7edf:"
RecordLabel == "\\u804a\\u5929\\u8bb0\\u5f55"
OwnerLabel == "\\u7684\\u804a\\u5929\\u8bb0\\u5f55"

\* len of one token in bytes
TokenLen(t) ==
  CASE t \in DOMAIN LongWords -> LongWords[t]
    [] t = Newline \/ t = Invalid -> 1
    [] t = Replacement \/ \E i \in 1..Len(WideDelimiters) : t = WideDelimiters[i] -> 3
    [] t = TitleLabel -> 13
    [] t = RecordLabel -> 12
    [] t = OwnerLabel -> 15
    [] t \in {UserLabel, AssistantLabel, SystemLabel} -> 7
    [] OTHER -> Len(t)

RECURSIVE ByteLen(_)
ByteLen(text) == IF text = <<>> THEN 0 ELSE TokenLen(Head(text)) + ByteLen(Tail(text))

\* strings.Split(text, sep): the pieces between the occurrences of sep, found
\* from the left without overlap; cur is the piece being collected.
RECURSIVE SplitFrom(_, _, _, _)
SplitFrom(text, sep, i, cur) ==
  IF i > Len(text) THEN <<cur>>
  ELSE IF i + Len(sep) - 1 <= Len(text) /\ SubSeq(text, i, i + Len(sep) - 1) = sep
    THEN <<cur>> \o SplitFrom(text, sep, i + Len(sep), <<>>)
  ELSE SplitFrom(text, sep, i + 1, Append(cur, text[i]))

Split(text, sep) == SplitFrom(text, sep, 1, <<>>)

\* strings.Join(parts, sep)
RECURSIVE Join(_, _)
Join(parts, sep) ==
  IF Len(parts) = 0 THEN <<>>
  ELSE IF Len(parts) = 1 THEN parts[1]
  ELSE parts[1] \o sep \o Join(Tail(parts), sep)

min(a, b) == IF a < b THEN a ELSE b

\* One delimiter of splitIntoSentences applied to one sentence: empty parts
\* are dropped, every part but the last gets the delimiter back.
RECURSIVE KeepParts(_, _, _)
KeepParts(parts, delimiter, i) ==
  IF i > Len(parts) THEN <<>>
  ELSE (IF parts[i] = <<>> THEN <<>>
        ELSE IF i < Len(parts) THEN <<parts[i] \o <<delimiter>>>>
        ELSE <<parts[i]>>) \o KeepParts(parts, delimiter, i + 1)

RECURSIVE SplitEach(_, _)
SplitEach(sentences, delimiter) ==
  IF sentences = <<>> THEN <<>>
  ELSE KeepParts(Split(Head(sentences), <<delimiter>>), delimiter, 1)
         \o SplitEach(Tail(sentences), delimiter)

RECURSIVE SplitBy(_, _)
SplitBy(sentences, delimiters) ==
  IF delimiters = <<>> THEN sentences
  ELSE SplitBy(SplitEach(sentences, Head(delimiters)), Tail(delimiters))

splitIntoSentences(text) == SplitBy(<<text>>, <<".", "!", "?">> \o WideDelimiters)

\* The start of the next chunk: the last overlap words of the chunk just
\* emitted (lines 450-456 and 484-490).
OverlapWords(currentChunk, overlap) ==
  LET words == Split(currentChunk, <<Space>>)
      overlapStart == Len(words) - min(Len(words), overlap)
  IN IF overlap > 0 THEN Join(SubSeq(words, overlapStart + 1, Len(words)), <<Space>>)
     ELSE <<>>

\* AddSentence without the branch for a sentence longer than the chunk size:
\* the sentence joins the overlap words like any other.
AddSentenceMerging(st, sentence, chunkSize, overlap) ==
  IF ByteLen(st.currentChunk) + ByteLen(sentence) + 1 <= chunkSize
    THEN [st EXCEPT !.currentChunk =
            (IF @ # <<>> THEN @ \o <<Space>> ELSE @) \o sentence]
  ELSE LET emitted == IF st.currentChunk # <<>>
                        THEN [chunks |-> Append(st.chunks, st.currentChunk),
                              currentChunk |-> OverlapWords(st.currentChunk, overlap)]
                        ELSE st
       IN [emitted EXCEPT !.currentChunk =
             (IF @ # <<>> THEN @ \o <<Space>> ELSE @) \o sentence]

\* st is [chunks, currentChunk]; one sentence of a long paragraph.
AddSentence(st, sentence, chunkSize, overlap) ==
  IF ByteLen(st.currentChunk) + ByteLen(sentence) + 1 <= chunkSize
    THEN [st EXCEPT !.currentChunk =
            (IF @ # <<>> THEN @ \o <<Space>> ELSE @) \o sentence]
  ELSE LET emitted == IF st.currentChunk # <<>>
                        THEN [chunks |-> Append(st.chunks, st.currentChunk),
                              currentChunk |-> OverlapWords(st.currentChunk, overlap)]
                        ELSE st
       IN IF ByteLen(sentence) > chunkSize
            THEN [chunks |-> Append(emitted.chunks, sentence), currentChunk |-> <<>>]
            ELSE [emitted EXCEPT !.currentChunk =
                    (IF @ # <<>> THEN @ \o <<Space>> ELSE @) \o sentence]

RECURSIVE AddSentences(_, _, _, _)
AddSentences(st, sentences, chunkSize, overlap) ==
  IF sentences = <<>> THEN st
  ELSE AddSentences(AddSentence(st, Head(sentences), chunkSize, overlap),
                    Tail(sentences), chunkSize, overlap)

AddParagraph(st, paragraph, chunkSize, overlap) ==
  IF ByteLen(paragraph) > chunkSize
    THEN AddSentences(st, splitIntoSentences(paragraph), chunkSize, overlap)
  ELSE IF ByteLen(st.currentChunk) + ByteLen(paragraph) + 2 <= chunkSize
    THEN [st EXCEPT !.currentChunk =
            (IF @ # <<>> THEN @ \o <<Newline, Newline>> ELSE @) \o paragraph]
  ELSE IF st.currentChunk # <<>>
    THEN [chunks |-> Append(st.chunks, st.currentChunk),
          currentChunk |-> OverlapWords(st.currentChunk, overlap) \o paragraph]
  ELSE [st EXCEPT !.currentChunk = paragraph]

RECURSIVE AddParagraphs(_, _, _, _)
AddParagraphs(st, paragraphs, chunkSize, overlap) ==
  IF paragraphs = <<>> THEN st
  ELSE AddParagraphs(AddParagraph(st, Head(paragraphs), chunkSize, overlap),
                     Tail(paragraphs), chunkSize, overlap)

\* One chunk for each paragraph, whatever the sizes.
ChunkTextByParagraph(text, chunkSize, overlap) == Split(text, <<Newline, Newline>>)

ChunkText(text, chunkSize, overlap) ==
  LET size == IF chunkSize <= 0 THEN 1000 ELSE chunkSize
      lap == IF overlap < 0 \/ overlap >= size THEN size \div 5 ELSE overlap
      st == AddParagraphs([chunks |-> <<>>, currentChunk |-> <<>>],
                          Split(text, <<Newline, Newline>>), size, lap)
  IN IF st.currentChunk # <<>> THEN Append(st.chunks, st.currentChunk) ELSE st.chunks

\* ---- the chat archive: transcripts and paths ----
MaxTime == 3
Times == 0..MaxTime

Characters == {"Aria"}
ChatIds == {"c1", "c2", "_info"}

\* processor.ChatMessage; Content is a string of units, Role and Time are
\* plain text.
UserMessage == [Role |-> "user", Content |-> <<"Hello", ".">>, Time |-> ""]
ReplyMessage == [Role |-> "assistant", Content |-> <<"Hi", ".", Invalid>>, Time |-> "12:00"]

\* processor.ChatHistory
ChatHistory(id, title, messages) == [ID |-> id, Title |-> title, Messages |-> messages]
ChatHistories ==
  {ChatHistory(id, <<"Trip">>, <<UserMessage>>) : id \in ChatIds}
    \cup {ChatHistory("c1", <<"Plan">>, <<UserMessage, ReplyMessage>>)}

\* A path is the sequence of its elements below basePath.  The elements of a
\* name between its separators: of the names used here only TraversalId
\* contains a separator.
TraversalId == "../Bob/c1"
PathElements(name) ==
  IF name = TraversalId THEN <<"..", "Bob", "c1">>
  ELSE IF name = TraversalId \o ".json" THEN <<"..", "Bob", "c1.json">>
  ELSE <<name>>

\* filepath.Clean, which filepath.Join applies to its result: "." is dropped
\* and ".." removes the element before it.
RECURSIVE Clean(_, _)
Clean(done, rest) ==
  IF rest = <<>> THEN done
  ELSE IF rest[1] = "." THEN Clean(done, Tail(rest))
  ELSE IF rest[1] = ".." /\ done # <<>>
    THEN Clean(SubSeq(done, 1, Len(done) - 1), Tail(rest))
  ELSE Clean(Append(done, rest[1]), Tail(rest))

PathJoin(dir, name) == Clean(<<>>, dir \o PathElements(name))

getCharacterPath(character) == PathJoin(<<"chats">>, character)
getChatPath(character, chatID) == PathJoin(getCharacterPath(character), chatID \o ".json")
getCharacterInfoPath(character) == PathJoin(getCharacterPath(character), "_info.json")

\* os.WriteFile creates the file, never the directory it is in.
ParentExists(path, dirs) == Len(path) = 3 /\ path[1] = "chats" /\ path[2] \in dirs

\* ---- package processor: chat transcripts as text ----
\* "<role>: " of one message
RolePrefix(role) ==
  CASE role = "user" -> <<UserLabel, Space>>
    [] role = "assistant" -> <<AssistantLabel, Space>>
    [] role = "system" -> <<SystemLabel, Space>>
    [] OTHER -> <<role \o ":", Space>>

MessageText(msg) ==
  RolePrefix(msg.Role)
    \o (IF msg.Time # "" THEN <<Space, "[" \o msg.Time \o "]">> ELSE <<>>)
    \o <<Newline>> \o msg.Content \o <<Newline, Newline>>

RECURSIVE MessagesText(_)
MessagesText(messages) ==
  IF messages = <<>> THEN <<>>
  ELSE MessageText(Head(messages)) \o MessagesText(Tail(messages))

ProcessChatHistory(chat) ==
  IF Len(chat.Messages) = 0 THEN [err |-> "empty", chunks |-> <<>>]
  ELSE [err |-> "nil",
        chunks |-> ChunkText(<<TitleLabel, Space>> \o chat.Title \o <<Newline, Newline>>
                               \o MessagesText(chat.Messages), 1000, 200)]

\* t is the reading of time.Now() for upload_time.
CreateChatMetadata(chat, t) ==
  LET firstMsg == chat.Messages[1]
      lastMsg == chat.Messages[Len(chat.Messages)]
  IN [title |-> chat.Title, chat_id |-> <<chat.ID>>,
      message_count |-> <<ToString(Len(chat.Messages))>>,
      upload_time |-> <<ToString(t)>>]
       @@ (IF Len(chat.Messages) > 0 /\ firstMsg.Time # ""
             THEN [start_time |-> <<firstMsg.Time>>] ELSE <<>>)
       @@ (IF Len(chat.Messages) > 0 /\ lastMsg.Time # ""
             THEN [end_time |-> <<lastMsg.Time>>] ELSE <<>>)

\* ---- encoding/json on the archive's two files ----
\* A file holds the JSON value last written to it: the object {info, messages}
\* of a transcript, the array of a character's index, or the remains of a
\* write that failed after the file was truncated.
Truncated == [kind |-> "truncated"]

MarshalInfo(chatInfo) == [chatInfo EXCEPT !.Title = ToValidUTF8(@)]
MarshalMessage(msg) == [msg EXCEPT !.Content = ToValidUTF8(@)]
MarshalSaveData(chatInfo, messages) ==
  [kind |-> "object", info |-> MarshalInfo(chatInfo),
   messages |-> [i \in 1..Len(messages) |-> MarshalMessage(messages[i])]]
MarshalChats(chats) ==
  [kind |-> "array", chats |-> [i \in 1..Len(chats) |-> MarshalInfo(chats[i])]]

\* json.Unmarshal into struct{Info; Messages} and into []ChatInfo: a value of
\* the other shape, or a truncated file, is an error.
UnmarshalSaveData(data) ==
  IF data.kind = "object"
    THEN [err |-> "nil", info |-> data.info, messages |-> data.messages]
    ELSE [err |-> "parse", info |-> <<>>, messages |-> <<>>]
UnmarshalChats(data) ==
  IF data.kind = "array" THEN [err |-> "nil", chats |-> data.chats]
  ELSE [err |-> "parse", chats |-> <<>>]

ChatResult(op, character, id, chat, err, out, chats, names) ==
  [op |-> op, character |-> character, id |-> id, chat |-> chat, err |-> err,
   out |-> out, chats |-> chats, names |-> names]

\* ---- operations ----
Result(op, id, doc, vector, limit, filter, err, docs, scores) ==
  [op |-> op, id |-> id, doc |-> doc, vector |-> vector, limit |-> limit,
   filter |-> filter, err |-> err, docs |-> docs, scores |-> scores]

NoArg == [id |-> 0, doc |-> <<>>, vector |-> <<>>, limit |-> 0, filter |-> "nil"]
NoLoc == [ids |-> <<>>, sims |-> <<>>, docs |-> <<>>, scores |-> <<>>, err |-> "nil"]

NoCalls == [archived |-> <<>>, embedded |-> 0, added |-> <<>>, committed |-> <<>>,
            searched |-> 0]
NoRequest == [handler |-> "none", status |-> 0, body |-> <<>>, calls |-> NoCalls]

\* ChunkText has not been called.
NoChunking == [called |-> FALSE, text |-> <<>>, chunkSize |-> 0, overlap |-> 0,
               chunks |-> <<>>]

\* The goroutines calling the chat archive at the same time: two that save,
\* one that lists.
ChatSavers == {1, 2}
ChatListers == {3}
ChatProcs == ChatSavers \cup ChatListers
NoChatArg == [character |-> "", chat |-> <<>>]
NoChatLoc == [info |-> <<>>, chats |-> <<>>, err |-> "nil", returned |-> 0]

\* The state after NewVectorStore and NewChatStore, whatever the model path
\* and whatever ChunkText is going to be called with.
Constructed ==
  /\ db = <<>>
  /\ files = <<>>
  /\ last = Result("open", 0, <<>>, <<>>, 0, "nil", "nil", <<>>, <<>>)
  /\ pc = [p \in Procs |-> "idle"]
  /\ arg = [p \in Procs |-> NoArg]
  /\ loc = [p \in Procs |-> NoLoc]
  /\ readerCount = 0
  /\ readerWait = {}
  /\ wOwner = 0
  /\ chatDirs = {}
  /\ chatFiles = <<>>
  /\ now = 0
  /\ chatLast = ChatResult("open", "", "", <<>>, "nil", <<>>, <<>>, {})
  /\ uuidCount = 0
  /\ served = NoRequest
  /\ closed = FALSE
  /\ chatPc = [p \in ChatProcs |-> "idle"]
  /\ chatArg = [p \in ChatProcs |-> NoChatArg]
  /\ chatLoc = [p \in ChatProcs |-> NoChatLoc]
  /\ chatWriter = 0
  /\ chatReaders = {}

Opened == Constructed /\ chunked = NoChunking

\* config.DefaultConfig: ModelPath "./models"
Init == Opened /\ modelPath = "./models"

\* AddDocument on the store (d, f): the store it leaves and the error it returns.
AddDocumentIn(d, f, doc, vector, io) ==
  IF io = "dbFail" THEN [db |-> d, files |-> f, err |-> "store_document"]
  ELSE IF io = "fileFail"
    THEN [db |-> Put(d, doc.ID, Marshal(doc)), files |-> f, err |-> "store_vector"]
  ELSE [db |-> Put(d, doc.ID, Marshal(doc)),
        files |-> Put(f, doc.ID, EncodeVector(vector)), err |-> "nil"]

\* DeleteDocument on the store (d, f): the key is deleted first, the vector
\* file removed only after that succeeded.
DeleteDocumentIn(d, f, id, io) ==
  IF io = "dbFail" THEN [db |-> d, files |-> f, err |-> "delete_document"]
  ELSE IF io = "fileFail" THEN [db |-> Drop(d, id), files |-> f, err |-> "delete_vector"]
  ELSE [db |-> Drop(d, id), files |-> Drop(f, id), err |-> "nil"]

\* After Close every db.Update and db.View returns ErrDBClosed: to the caller
\* the same as a transaction that failed.
DbIo(io) == IF closed THEN "dbFail" ELSE io

AddDocument(doc, vector, io) ==
  /\ db' = AddDocumentIn(db, files, doc, vector, DbIo(io)).db
  /\ files' = AddDocumentIn(db, files, doc, vector, DbIo(io)).files
  /\ last' = Result("add", doc.ID, <<doc>>, vector, 0, "nil",
                    AddDocumentIn(db, files, doc, vector, DbIo(io)).err, <<>>, <<>>)
  /\ UNCHANGED <<concVars, notStoreVars>>

GetDocument(id) ==
  /\ last' = IF closed
               THEN Result("get", id, <<>>, <<>>, 0, "nil", "db_closed", <<>>, <<>>)
               ELSE Result("get", id, <<>>, <<>>, 0, "nil",
                           GetDocumentIn(db, id).err, GetDocumentIn(db, id).docs, <<>>)
  /\ UNCHANGED <<db, files, concVars, notStoreVars>>

\* GetVector reads the file and never touches vs.db.
GetVector(id) ==
  /\ last' = Result("get_vector", id, <<>>, GetVectorIn(files, id).vector, 0, "nil",
                    GetVectorIn(files, id).err, <<>>, <<>>)
  /\ UNCHANGED <<db, files, concVars, notStoreVars>>

ListDocuments ==
  /\ last' = IF closed
               THEN Result("list", 0, <<>>, <<>>, 0, "nil", "db_closed", <<>>, <<>>)
               ELSE Result("list", 0, <<>>, <<>>, 0, "nil", "nil", ListDocumentsIn(db), <<>>)
  /\ UNCHANGED <<db, files, concVars, notStoreVars>>

SearchSimilarWithFilter(queryVector, limit, filter) ==
  /\ IF closed
       THEN last' = Result("search", 0, <<>>, queryVector, limit, filter, "db_closed",
                           <<>>, <<>>)
       ELSE \E r \in SearchSimilarWithFilterIn(db, files, queryVector, limit, filter) :
              last' = Result("search", 0, <<>>, queryVector, limit, filter, "nil",
                             r.docs, r.scores)
  /\ UNCHANGED <<db, files, concVars, notStoreVars>>

\* VectorStore.Close: db.Close(), which returns nil on a second call too.
Close ==
  /\ closed' = TRUE
  /\ last' = Result("close", 0, <<>>, <<>>, 0, "nil", "nil", <<>>, <<>>)
  /\ UNCHANGED <<db, files, concVars, archiveVars, handlerVars, chunked, chatConcVars>>

\* DeleteDocument without the os.Remove of the vector file.
DeleteDocumentKeepsVector(id, io) ==
  LET ret(err) == Result("delete", id, <<>>, <<>>, 0, "nil", err, <<>>, <<>>)
  IN IF io = "dbFail"
       THEN /\ last' = ret("delete_document")
            /\ UNCHANGED <<db, files, concVars, notStoreVars>>
       ELSE /\ db' = Drop(db, id)
            /\ last' = ret(IF io = "fileFail" THEN "delete_vector" ELSE "nil")
            /\ UNCHANGED <<files, concVars, notStoreVars>>

DeleteDocument(id, io) ==
  LET ret(err) == Result("delete", id, <<>>, <<>>, 0, "nil", err, <<>>, <<>>)
  IN IF DbIo(io) = "dbFail"
       THEN /\ last' = ret("delete_document")
            /\ UNCHANGED <<db, files, concVars, notStoreVars>>
       ELSE /\ db' = Drop(db, id)
            /\ IF io = "fileFail"
                 THEN /\ last' = ret("delete_vector")
                      /\ UNCHANGED <<files, concVars, notStoreVars>>
                 ELSE /\ files' = Drop(files, id)
                      /\ last' = ret("nil")
                      /\ UNCHANGED <<concVars, notStoreVars>>

\* One caller at a time: every operation runs from its lock to its unlock
\* without another one in between.
Next ==
  \/ \E doc \in Documents, vector \in Vectors, io \in IOs : AddDocument(doc, vector, io)
  \/ \E id \in Ids : GetDocument(id)
  \/ \E id \in Ids : GetVector(id)
  \/ ListDocuments
  \/ \E q \in Queries, limit \in Limits, filter \in Filters :
       SearchSimilarWithFilter(q, limit, filter)
  \/ \E id \in Ids, io \in IOs : DeleteDocument(id, io)

Spec == Init /\ [][Next]_vars

\* ---- the same operations, step by step, under vs.mutex (sync.RWMutex) ----
\* readerCount: the read locks held or already promised to a woken reader.
\* readerWait: the goroutines blocked in RLock.  wOwner: the goroutine that
\* has called Lock and not yet Unlock (0: none); it owns the lock once no
\* read lock is held.  RLock blocks while there is such a writer, whether it
\* owns the lock or still waits for it.
Goto(p, label) == pc' = [pc EXCEPT ![p] = label]

WaitOf(label) ==
  CASE label = "s_rlock" -> "s_rlock_wait"
    [] label = "gv_rlock" -> "gv_rlock_wait"
    [] label = "gd_rlock" -> "gd_rlock_wait"
    [] label = "l_rlock" -> "l_rlock_wait"
    [] label = "add_lock" -> "add_lock_wait"
    [] label = "del_lock" -> "del_lock_wait"

Locked(label) ==
  CASE label \in {"s_rlock", "s_rlock_wait"} -> "s_scan"
    [] label \in {"gv_rlock", "gv_rlock_wait"} -> "gv_read"
    [] label \in {"gd_rlock", "gd_rlock_wait"} -> "gd_read"
    [] label \in {"l_rlock", "l_rlock_wait"} -> "l_read"
    [] label \in {"add_lock", "add_lock_wait"} -> "add_doc"
    [] label \in {"del_lock", "del_lock_wait"} -> "del_doc"

RLock(p) ==
  /\ pc[p] \in {"s_rlock", "gv_rlock", "gd_rlock", "l_rlock"}
  /\ IF wOwner # 0
       THEN /\ readerWait' = readerWait \cup {p}
            /\ Goto(p, WaitOf(pc[p]))
            /\ UNCHANGED readerCount
       ELSE /\ readerCount' = readerCount + 1
            /\ Goto(p, Locked(pc[p]))
            /\ UNCHANGED readerWait
  /\ UNCHANGED <<db, files, last, arg, loc, wOwner, notStoreVars>>

\* A reader blocked in RLock goes on once a writer's Unlock has woken it.
RLockWoken(p) ==
  /\ pc[p] \in {"s_rlock_wait", "gv_rlock_wait", "gd_rlock_wait", "l_rlock_wait"}
  /\ p \notin readerWait
  /\ Goto(p, Locked(pc[p]))
  /\ UNCHANGED <<db, files, last, arg, loc, readerCount, readerWait, wOwner, notStoreVars>>

\* Lock, first half: take the writers' mutex and announce the writer.
Lock(p) ==
  /\ pc[p] \in {"add_lock", "del_lock"}
  /\ wOwner = 0
  /\ wOwner' = p
  /\ Goto(p, WaitOf(pc[p]))
  /\ UNCHANGED <<db, files, last, arg, loc, readerCount, readerWait, notStoreVars>>

\* Lock, second half, without waiting for the readers to leave.
LockAcquiredIgnoringReaders(p) ==
  /\ pc[p] \in {"add_lock_wait", "del_lock_wait"}
  /\ wOwner = p
  /\ Goto(p, Locked(pc[p]))
  /\ UNCHANGED <<db, files, last, arg, loc, readerCount, readerWait, wOwner, notStoreVars>>

\* Lock, second half: the announced writer goes on once no read lock is held.
LockAcquired(p) ==
  /\ pc[p] \in {"add_lock_wait", "del_lock_wait"}
  /\ wOwner = p
  /\ readerCount = 0
  /\ Goto(p, Locked(pc[p]))
  /\ UNCHANGED <<db, files, last, arg, loc, readerCount, readerWait, wOwner, notStoreVars>>

\* AddDocument, DeleteDocument: entry.
CallAddDocument(p, doc, vector) ==
  /\ pc[p] = "idle"
  /\ arg' = [arg EXCEPT ![p] = [NoArg EXCEPT !.id = doc.ID, !.doc = <<doc>>, !.vector = vector]]
  /\ Goto(p, "add_lock")
  /\ UNCHANGED <<db, files, last, loc, readerCount, readerWait, wOwner, notStoreVars>>

CallDeleteDocument(p, id) ==
  /\ pc[p] = "idle"
  /\ arg' = [arg EXCEPT ![p] = [NoArg EXCEPT !.id = id]]
  /\ Goto(p, "del_lock")
  /\ UNCHANGED <<db, files, last, loc, readerCount, readerWait, wOwner, notStoreVars>>

\* AddDocument: db.Update.
AddStoreDocument(p, io) ==
  /\ pc[p] = "add_doc"
  /\ IF io = "dbFail"
       THEN /\ loc' = [loc EXCEPT ![p].err = "store_document"]
            /\ Goto(p, "add_unlock")
            /\ UNCHANGED db
       ELSE /\ db' = Put(db, arg[p].id, Marshal(arg[p].doc[1]))
            /\ Goto(p, "add_vec")
            /\ UNCHANGED loc
  /\ UNCHANGED <<files, last, arg, readerCount, readerWait, wOwner, notStoreVars>>

\* AddDocument: os.WriteFile.
AddStoreVector(p, io) ==
  /\ pc[p] = "add_vec"
  /\ IF io = "fileFail"
       THEN /\ loc' = [loc EXCEPT ![p].err = "store_vector"]
            /\ UNCHANGED files
       ELSE /\ files' = Put(files, arg[p].id, EncodeVector(arg[p].vector))
            /\ UNCHANGED loc
  /\ Goto(p, "add_unlock")
  /\ UNCHANGED <<db, last, arg, readerCount, readerWait, wOwner, notStoreVars>>

\* DeleteDocument: db.Update.
DeleteStoredDocument(p, io) ==
  /\ pc[p] = "del_doc"
  /\ IF io = "dbFail"
       THEN /\ loc' = [loc EXCEPT ![p].err = "delete_document"]
            /\ Goto(p, "del_unlock")
            /\ UNCHANGED db
       ELSE /\ db' = Drop(db, arg[p].id)
            /\ Goto(p, "del_vec")
            /\ UNCHANGED loc
  /\ UNCHANGED <<files, last, arg, readerCount, readerWait, wOwner, notStoreVars>>

\* DeleteDocument: os.Remove.
DeleteStoredVector(p, io) ==
  /\ pc[p] = "del_vec"
  /\ IF io = "fileFail"
       THEN /\ loc' = [loc EXCEPT ![p].err = "delete_vector"]
            /\ UNCHANGED files
       ELSE /\ files' = Drop(files, arg[p].id)
            /\ UNCHANGED loc
  /\ Goto(p, "del_unlock")
  /\ UNCHANGED <<db, last, arg, readerCount, readerWait, wOwner, notStoreVars>>

\* The deferred Unlock of AddDocument and DeleteDocument, and the return:
\* every reader blocked in RLock is woken and holds a read lock from here on.
Unlock(p) ==
  /\ pc[p] \in {"add_unlock", "del_unlock"}
  /\ wOwner' = 0
  /\ readerCount' = readerCount + Cardinality(readerWait)
  /\ readerWait' = {}
  /\ arg' = [arg EXCEPT ![p] = NoArg]
  /\ loc' = [loc EXCEPT ![p] = NoLoc]
  /\ Goto(p, "idle")
  /\ UNCHANGED <<db, files, last, notStoreVars>>

\* SearchSimilarWithFilter: entry.
CallSearch(p, queryVector, limit, filter) ==
  /\ pc[p] = "idle"
  /\ arg' = [arg EXCEPT ![p] = [NoArg EXCEPT !.vector = queryVector, !.limit = limit,
                                               !.filter = filter]]
  /\ Goto(p, "s_rlock")
  /\ UNCHANGED <<db, files, last, loc, readerCount, readerWait, wOwner, notStoreVars>>

\* SearchSimilarWithFilter: the scan of the keys "doc:"+id.
SearchScan(p) ==
  /\ pc[p] = "s_scan"
  /\ loc' = [loc EXCEPT ![p].ids = KeyOrder(DOMAIN db)]
  /\ Goto(p, IF DOMAIN db = {} THEN "s_sort" ELSE "gv_rlock")
  /\ UNCHANGED <<db, files, last, arg, readerCount, readerWait, wOwner, notStoreVars>>

\* GetVector called by the first loop of the search, between its RLock and
\* its RUnlock: an id whose vector cannot be read is skipped.
SearchReadVector(p) ==
  /\ pc[p] = "gv_read"
  /\ LET id == Head(loc[p].ids)
         got == GetVectorIn(files, id)
     IN loc' = [loc EXCEPT
                  ![p].sims =
                    IF got.err = "nil"
                      THEN Append(@, [id |-> id,
                                      similarity |-> cosineSimilarity(arg[p].vector, got.vector)])
                      ELSE @]
  /\ Goto(p, "gv_runlock")
  /\ UNCHANGED <<db, files, last, arg, readerCount, readerWait, wOwner, notStoreVars>>

\* The deferred RUnlock of GetVector and GetDocument inside the search.
InnerRUnlock(p) ==
  /\ pc[p] \in {"gv_runlock", "gd_runlock"}
  /\ readerCount' = readerCount - 1
  /\ loc' = [loc EXCEPT ![p].ids = Tail(@)]
  /\ Goto(p, IF Len(loc[p].ids) > 1
               THEN (IF pc[p] = "gv_runlock" THEN "gv_rlock" ELSE "gd_rlock")
               ELSE (IF pc[p] = "gv_runlock" THEN "s_sort" ELSE "s_runlock"))
  /\ UNCHANGED <<db, files, last, arg, readerWait, wOwner, notStoreVars>>

\* SearchSimilarWithFilter: sort.Slice and the cut to limit.
SearchSort(p) ==
  /\ pc[p] = "s_sort"
  /\ \E s \in SortOutcomes(loc[p].sims) :
       LET kept == IF arg[p].limit > 0 /\ Len(s) > arg[p].limit
                     THEN SubSeq(s, 1, arg[p].limit) ELSE s
       IN /\ loc' = [loc EXCEPT ![p].sims = kept,
                                 ![p].ids = MapSeq(kept, LAMBDA x : x.id)]
          /\ Goto(p, IF kept = <<>> THEN "s_runlock" ELSE "gd_rlock")
  /\ UNCHANGED <<db, files, last, arg, readerCount, readerWait, wOwner, notStoreVars>>

\* GetDocument called by the second loop of the search.
SearchReadDocument(p) ==
  /\ pc[p] = "gd_read"
  /\ LET id == Head(loc[p].ids)
         got == GetDocumentIn(db, id)
         sim == loc[p].sims[Len(loc[p].sims) - Len(loc[p].ids) + 1]
     IN loc' = [loc EXCEPT
                  ![p].docs = IF got.err = "nil" THEN Append(@, got.docs[1]) ELSE @,
                  ![p].scores = IF got.err = "nil" THEN Append(@, sim.similarity) ELSE @]
  /\ Goto(p, "gd_runlock")
  /\ UNCHANGED <<db, files, last, arg, readerCount, readerWait, wOwner, notStoreVars>>

\* The deferred RUnlock of SearchSimilarWithFilter, and the return of
\* loc[p].docs and loc[p].scores to the caller.
SearchReturn(p) ==
  /\ pc[p] = "s_runlock"
  /\ readerCount' = readerCount - 1
  /\ arg' = [arg EXCEPT ![p] = NoArg]
  /\ loc' = [loc EXCEPT ![p] = NoLoc]
  /\ Goto(p, "idle")
  /\ UNCHANGED <<db, files, last, readerWait, wOwner, notStoreVars>>

\* ListDocuments: entry, the scan under the read lock, RUnlock and return.
CallListDocuments(p) ==
  /\ pc[p] = "idle"
  /\ Goto(p, "l_rlock")
  /\ UNCHANGED <<db, files, last, arg, loc, readerCount, readerWait, wOwner, notStoreVars>>

ListScan(p) ==
  /\ pc[p] = "l_read"
  /\ loc' = [loc EXCEPT ![p].docs = ListDocumentsIn(db)]
  /\ Goto(p, "l_runlock")
  /\ UNCHANGED <<db, files, last, arg, readerCount, readerWait, wOwner, notStoreVars>>

ListReturn(p) ==
  /\ pc[p] = "l_runlock"
  /\ readerCount' = readerCount - 1
  /\ loc' = [loc EXCEPT ![p] = NoLoc]
  /\ Goto(p, "idle")
  /\ UNCHANGED <<db, files, last, arg, readerWait, wOwner, notStoreVars>>

\* A call arrives.
Call(p) ==
  \/ /\ p \in Writers
     /\ \/ \E doc \in ConcDocuments, vector \in ConcVectors : CallAddDocument(p, doc, vector)
        \/ \E id \in Ids : CallDeleteDocument(p, id)
  \/ /\ p \in Searchers
     /\ \/ \E q \in ConcQueries, limit \in ConcLimits, filter \in ConcFilters :
             CallSearch(p, q, limit, filter)
        \/ CallListDocuments(p)

\* A call in progress takes its next step.
Step(p) ==
  \/ RLock(p)
  \/ RLockWoken(p)
  \/ Lock(p)
  \/ LockAcquired(p)
  \/ \E io \in {"ok", "dbFail"} : AddStoreDocument(p, io)
  \/ \E io \in {"ok", "fileFail"} : AddStoreVector(p, io)
  \/ \E io \in {"ok", "dbFail"} : DeleteStoredDocument(p, io)
  \/ \E io \in {"ok", "fileFail"} : DeleteStoredVector(p, io)
  \/ Unlock(p)
  \/ SearchScan(p)
  \/ SearchReadVector(p)
  \/ InnerRUnlock(p)
  \/ SearchSort(p)
  \/ SearchReadDocument(p)
  \/ SearchReturn(p)
  \/ ListScan(p)
  \/ ListReturn(p)

ConcNext == \E p \in Procs : Call(p) \/ Step(p)

ConcSpec == Init /\ [][ConcNext]_vars

\* The goroutine scheduler runs every goroutine that can take a step, and
\* every store and file operation returns.
ConcFairSpec == ConcSpec /\ \A p \in Procs : WF_vars(Step(p))

\* ---- the chat archive's operations ----
storeSide == <<db, files, last, pc, arg, loc, readerCount, readerWait, wOwner>>

\* What the file system can do to one call: nothing, or fail one of its steps.
\* A failed os.WriteFile leaves the file as it was (the open failed) or
\* truncated (the write after the open failed).
SaveIOs == {"ok", "mkdirFail", "readFail", "writeFail", "writeTrunc",
            "infoReadFail", "infoWriteFail", "infoWriteTrunc"}
DeleteIOs == {"ok", "removeFail", "infoReadFail", "infoWriteFail", "infoWriteTrunc"}
ReadIOs == {"ok", "readFail"}

\* Replaces the entry of chatInfo.ID in the character's index, or appends it.
\* An index that does not parse is replaced by a new list.
updateCharacterInfo(f, character, chatInfo, io) ==
  LET infoPath == getCharacterInfoPath(character)
      chats == IF infoPath \in DOMAIN f THEN UnmarshalChats(f[infoPath]).chats
               ELSE <<>>
      hit == {i \in 1..Len(chats) : chats[i].ID = chatInfo.ID}
      first == CHOOSE i \in hit : \A j \in hit : i <= j
      updatedChats == IF hit # {} THEN [chats EXCEPT ![first] = chatInfo]
                      ELSE Append(chats, chatInfo)
  IN IF infoPath \in DOMAIN f /\ io = "infoReadFail"
       THEN [files |-> f, err |-> "read_info"]
     ELSE IF io = "infoWriteFail" THEN [files |-> f, err |-> "write_info"]
     ELSE IF io = "infoWriteTrunc"
       THEN [files |-> Put(f, infoPath, Truncated), err |-> "write_info"]
     ELSE [files |-> Put(f, infoPath, MarshalChats(updatedChats)), err |-> "nil"]

\* SaveChat on the archive (dirs, f): the archive it leaves and the error it
\* returns.  t is the reading of time.Now() at lines 75 and 76, taken as one
\* instant.
SaveChatIn(dirs, f, character, chat, t, io) ==
  LET chatPath == getChatPath(character, chat.ID)
      existing == IF chatPath \in DOMAIN f /\ io # "readFail"
                    THEN UnmarshalSaveData(f[chatPath])
                    ELSE [err |-> "read", info |-> <<>>, messages |-> <<>>]
      chatInfo == [ID |-> chat.ID, Title |-> chat.Title, Character |-> character,
                   CreatedAt |-> IF existing.err = "nil"
                                   THEN existing.info.CreatedAt ELSE t,
                   UpdatedAt |-> t,
                   MessageCount |-> Len(chat.Messages)]
      written == Put(f, chatPath, MarshalSaveData(chatInfo, chat.Messages))
      indexed == updateCharacterInfo(written, character, chatInfo, io)
      made == dirs \cup {character}
  IN IF io = "mkdirFail" THEN [dirs |-> dirs, files |-> f, err |-> "mkdir"]
     ELSE IF io = "writeFail" \/ ~ParentExists(chatPath, made)
       THEN [dirs |-> made, files |-> f, err |-> "write_chat"]
     ELSE IF io = "writeTrunc"
       THEN [dirs |-> made, files |-> Put(f, chatPath, Truncated), err |-> "write_chat"]
     ELSE [dirs |-> made, files |-> indexed.files, err |-> indexed.err]

\* The clock has moved on since the save before; os.MkdirAll can only fail
\* for a directory that is not there yet.
SaveChat(character, chat, t, io) ==
  /\ now < t
  /\ io = "mkdirFail" => character \notin chatDirs
  /\ chatDirs' = SaveChatIn(chatDirs, chatFiles, character, chat, t, io).dirs
  /\ chatFiles' = SaveChatIn(chatDirs, chatFiles, character, chat, t, io).files
  /\ now' = IF io = "mkdirFail" THEN now ELSE t
  /\ chatLast' = ChatResult("save", character, chat.ID, <<chat>>,
                            SaveChatIn(chatDirs, chatFiles, character, chat, t, io).err,
                            <<>>, <<>>, {})
  /\ UNCHANGED <<storeSide, handlerVars, restVars>>

GetChatIn(f, character, chatID, io) ==
  LET chatPath == getChatPath(character, chatID)
      savedData == UnmarshalSaveData(f[chatPath])
  IN IF chatPath \notin DOMAIN f THEN [err |-> "not_found", out |-> <<>>]
     ELSE IF io = "readFail" THEN [err |-> "read_chat", out |-> <<>>]
     ELSE IF savedData.err # "nil" THEN [err |-> "parse_chat", out |-> <<>>]
     ELSE [err |-> "nil",
           out |-> <<ChatHistory(savedData.info.ID, savedData.info.Title,
                                 savedData.messages)>>]

GetChat(character, chatID, io) ==
  /\ chatLast' = ChatResult("get", character, chatID, <<>>,
                            GetChatIn(chatFiles, character, chatID, io).err,
                            GetChatIn(chatFiles, character, chatID, io).out, <<>>, {})
  /\ UNCHANGED <<chatDirs, chatFiles, now, storeSide, handlerVars, restVars>>

\* DeleteChat on the files f: the files it leaves and the error it returns.
DeleteChatIn(f, character, chatID, io) ==
  LET chatPath == getChatPath(character, chatID)
      infoPath == getCharacterInfoPath(character)
      removed == Drop(f, chatPath)
      parsed == UnmarshalChats(removed[infoPath])
      updatedChats == SelectSeq(parsed.chats, LAMBDA info : info.ID # chatID)
  IN IF chatPath \notin DOMAIN f THEN [files |-> f, err |-> "not_found"]
     ELSE IF io = "removeFail" THEN [files |-> f, err |-> "remove_chat"]
     ELSE IF infoPath \notin DOMAIN removed THEN [files |-> removed, err |-> "nil"]
     ELSE IF io = "infoReadFail" THEN [files |-> removed, err |-> "read_info"]
     ELSE IF parsed.err # "nil" THEN [files |-> removed, err |-> "parse_info"]
     ELSE IF io = "infoWriteFail" THEN [files |-> removed, err |-> "write_info"]
     ELSE IF io = "infoWriteTrunc"
       THEN [files |-> Put(removed, infoPath, Truncated), err |-> "write_info"]
     ELSE [files |-> Put(removed, infoPath, MarshalChats(updatedChats)), err |-> "nil"]

DeleteChat(character, chatID, io) ==
  /\ chatFiles' = DeleteChatIn(chatFiles, character, chatID, io).files
  /\ chatLast' = ChatResult("delete", character, chatID, <<>>,
                            DeleteChatIn(chatFiles, character, chatID, io).err,
                            <<>>, <<>>, {})
  /\ UNCHANGED <<chatDirs, now, storeSide, handlerVars, restVars>>

\* The directories under <basePath>/chats; the model keeps them as a set.
ListCharactersIn(dirs, io) ==
  IF io = "readFail" THEN [err |-> "read_dir", names |-> {}]
  ELSE [err |-> "nil", names |-> dirs]

ListCharacters(io) ==
  /\ chatLast' = ChatResult("list_characters", "", "", <<>>,
                            ListCharactersIn(chatDirs, io).err, <<>>, <<>>,
                            ListCharactersIn(chatDirs, io).names)
  /\ UNCHANGED <<chatDirs, chatFiles, now, storeSide, handlerVars, restVars>>

ListChatsIn(f, character, io) ==
  LET infoPath == getCharacterInfoPath(character)
      parsed == UnmarshalChats(f[infoPath])
  IN IF infoPath \notin DOMAIN f THEN [err |-> "nil", chats |-> <<>>]
     ELSE IF io = "readFail" THEN [err |-> "read_info", chats |-> <<>>]
     ELSE IF parsed.err # "nil" THEN [err |-> "parse_info", chats |-> <<>>]
     ELSE [err |-> "nil", chats |-> parsed.chats]

ListChats(character, io) ==
  /\ chatLast' = ChatResult("list_chats", character, "", <<>>,
                            ListChatsIn(chatFiles, character, io).err, <<>>,
                            ListChatsIn(chatFiles, character, io).chats, {})
  /\ UNCHANGED <<chatDirs, chatFiles, now, storeSide, handlerVars, restVars>>

ChatNext ==
  \/ \E character \in Characters, chat \in ChatHistories, t \in Times, io \in SaveIOs :
       SaveChat(character, chat, t, io)
  \/ \E character \in Characters, chatID \in ChatIds, io \in ReadIOs :
       GetChat(character, chatID, io)
  \/ \E character \in Characters, chatID \in ChatIds, io \in DeleteIOs :
       DeleteChat(character, chatID, io)
  \/ \E io \in ReadIOs : ListCharacters(io)
  \/ \E character \in Characters, io \in ReadIOs : ListChats(character, io)

ChatSpec == Init /\ [][ChatNext]_vars

\* The archive on a file system that never fails: every step of every call
\* succeeds.
ChatOkNext ==
  \/ \E character \in Characters, chat \in ChatHistories, t \in Times :
       SaveChat(character, chat, t, "ok")
  \/ \E character \in Characters, chatID \in ChatIds : GetChat(character, chatID, "ok")
  \/ \E character \in Characters, chatID \in ChatIds : DeleteChat(character, chatID, "ok")
  \/ ListCharacters("ok")
  \/ \E character \in Characters : ListChats(character, "ok")

ChatOkSpec == Init /\ [][ChatOkNext]_vars

\* The archive of two characters on a file system that never fails, with a
\* chat id that holds path separators among the ids.
TwoCharacters == {"Aria", "Bob"}
TwoChatIds == {"c1", TraversalId}
TwoChatHistories ==
  {ChatHistory(id, title, <<UserMessage>>) : id \in TwoChatIds, title \in {<<"Trip">>}}

TwoNext ==
  \/ \E character \in TwoCharacters, chat \in TwoChatHistories :
       now + 1 \in Times /\ SaveChat(character, chat, now + 1, "ok")
  \/ \E character \in TwoCharacters, chatID \in TwoChatIds : GetChat(character, chatID, "ok")
  \/ \E character \in TwoCharacters, chatID \in TwoChatIds :
       DeleteChat(character, chatID, "ok")
  \/ \E character \in TwoCharacters : ListChats(character, "ok")

TwoSpec == Init /\ [][TwoNext]_vars

\* ---- SaveChat and ListChats, step by step, under cs.mutex ----
\* Each saver saves a transcript of its own id under the one character.
ChatConcCharacter == "Aria"
ChatConcChat(p) == ChatHistory(IF p = 1 THEN "c1" ELSE "c2", <<"Trip">>, <<UserMessage>>)

ChatGoto(p, label) == chatPc' = [chatPc EXCEPT ![p] = label]

\* cs.mutex.Lock() returns when nobody holds the lock; the same with a lock
\* that lets everybody in first.
ChatLockAlwaysFree(p) == TRUE

ChatLockFree(p) == chatWriter = 0 /\ chatReaders = {}

\* cs.mutex.RLock() returns when no writer holds the lock.  (sync.RWMutex
\* also holds a new reader back while a writer waits.)
ChatRLockFree(p) == chatWriter = 0

\* The calls that have been begun and have not read the clock yet.
ChatBegun == {q \in ChatSavers : chatPc[q] \in {"lock", "write"}}

\* A call of SaveChat begins; no call is begun whose reading of the clock
\* would be past MaxTime.
ChatCallSave(p) ==
  /\ chatPc[p] = "idle"
  /\ now + Cardinality(ChatBegun) < MaxTime
  /\ chatArg' = [chatArg EXCEPT ![p] = [character |-> ChatConcCharacter,
                                        chat |-> <<ChatConcChat(p)>>]]
  /\ chatLoc' = [chatLoc EXCEPT ![p] = [NoChatLoc EXCEPT !.returned = chatLoc[p].returned]]
  /\ ChatGoto(p, "lock")
  /\ UNCHANGED <<storeSide, archiveVars, handlerVars, closed, chunked, chatWriter,
                 chatReaders>>

ChatLock(p) ==
  /\ chatPc[p] = "lock"
  /\ ChatLockFree(p)
  /\ chatWriter' = p
  /\ ChatGoto(p, "write")
  /\ UNCHANGED <<storeSide, archiveVars, handlerVars, closed, chunked, chatArg, chatLoc,
                 chatReaders>>

\* Lines 64 to 112 of SaveChat: the directory, the clock, the transcript
\* that may be there already, and the transcript file written.
ChatWriteTranscript(p) ==
  LET character == chatArg[p].character
      chat == chatArg[p].chat[1]
      chatPath == getChatPath(character, chat.ID)
      existing == IF chatPath \in DOMAIN chatFiles
                    THEN UnmarshalSaveData(chatFiles[chatPath])
                    ELSE [err |-> "read", info |-> <<>>, messages |-> <<>>]
      chatInfo == [ID |-> chat.ID, Title |-> chat.Title, Character |-> character,
                   CreatedAt |-> IF existing.err = "nil"
                                   THEN existing.info.CreatedAt ELSE now + 1,
                   UpdatedAt |-> now + 1,
                   MessageCount |-> Len(chat.Messages)]
  IN /\ chatPc[p] = "write"
     /\ chatDirs' = chatDirs \cup {character}
     /\ now' = now + 1
     /\ chatFiles' = Put(chatFiles, chatPath, MarshalSaveData(chatInfo, chat.Messages))
     /\ chatLoc' = [chatLoc EXCEPT ![p].info = <<chatInfo>>]
     /\ ChatGoto(p, "readInfo")
     /\ UNCHANGED <<storeSide, chatLast, handlerVars, closed, chunked, chatArg, chatWriter,
                    chatReaders>>

\* updateCharacterInfo up to its os.WriteFile: the index read, and the entry
\* replaced or appended in memory.
ChatReadInfo(p) ==
  LET infoPath == getCharacterInfoPath(chatArg[p].character)
      chatInfo == chatLoc[p].info[1]
      chats == IF infoPath \in DOMAIN chatFiles THEN UnmarshalChats(chatFiles[infoPath]).chats
               ELSE <<>>
      hit == {i \in 1..Len(chats) : chats[i].ID = chatInfo.ID}
      first == CHOOSE i \in hit : \A j \in hit : i <= j
  IN /\ chatPc[p] = "readInfo"
     /\ chatLoc' = [chatLoc EXCEPT ![p].chats = IF hit # {}
                                                  THEN [chats EXCEPT ![first] = chatInfo]
                                                  ELSE Append(chats, chatInfo)]
     /\ ChatGoto(p, "openInfo")
     /\ UNCHANGED <<storeSide, archiveVars, handlerVars, closed, chunked, chatArg, chatWriter,
                    chatReaders>>

\* os.WriteFile of the index: the file is opened with O_TRUNC ...
ChatTruncateInfo(p) ==
  /\ chatPc[p] = "openInfo"
  /\ chatFiles' = Put(chatFiles, getCharacterInfoPath(chatArg[p].character), Truncated)
  /\ ChatGoto(p, "writeInfo")
  /\ UNCHANGED <<storeSide, chatDirs, now, chatLast, handlerVars, closed, chunked, chatArg,
                 chatLoc, chatWriter, chatReaders>>

\* ... and then written.
ChatWriteInfo(p) ==
  /\ chatPc[p] = "writeInfo"
  /\ chatFiles' = Put(chatFiles, getCharacterInfoPath(chatArg[p].character),
                      MarshalChats(chatLoc[p].chats))
  /\ ChatGoto(p, "unlock")
  /\ UNCHANGED <<storeSide, chatDirs, now, chatLast, handlerVars, closed, chunked, chatArg,
                 chatLoc, chatWriter, chatReaders>>

\* The deferred cs.mutex.Unlock(); SaveChat has returned nil once more.
ChatUnlock(p) ==
  /\ chatPc[p] = "unlock"
  /\ chatWriter' = 0
  /\ chatLoc' = [chatLoc EXCEPT ![p].returned = 1]
  /\ ChatGoto(p, "idle")
  /\ UNCHANGED <<storeSide, archiveVars, handlerVars, closed, chunked, chatArg, chatReaders>>

ChatCallList(p) ==
  /\ chatPc[p] = "idle"
  /\ chatArg' = [chatArg EXCEPT ![p] = [character |-> ChatConcCharacter, chat |-> <<>>]]
  /\ chatLoc' = [chatLoc EXCEPT ![p] = NoChatLoc]
  /\ ChatGoto(p, "rlock")
  /\ UNCHANGED <<storeSide, archiveVars, handlerVars, closed, chunked, chatWriter,
                 chatReaders>>

ChatRLock(p) ==
  /\ chatPc[p] = "rlock"
  /\ ChatRLockFree(p)
  /\ chatReaders' = chatReaders \cup {p}
  /\ ChatGoto(p, "read")
  /\ UNCHANGED <<storeSide, archiveVars, handlerVars, closed, chunked, chatArg, chatLoc,
                 chatWriter>>

\* The body of ListChats: what it will return.
ChatListRead(p) ==
  /\ chatPc[p] = "read"
  /\ chatLoc' = [chatLoc EXCEPT
                   ![p].chats = ListChatsIn(chatFiles, chatArg[p].character, "ok").chats,
                   ![p].err = ListChatsIn(chatFiles, chatArg[p].character, "ok").err]
  /\ ChatGoto(p, "runlock")
  /\ UNCHANGED <<storeSide, archiveVars, handlerVars, closed, chunked, chatArg, chatWriter,
                 chatReaders>>

ChatRUnlock(p) ==
  /\ chatPc[p] = "runlock"
  /\ chatReaders' = chatReaders \ {p}
  /\ chatLoc' = [chatLoc EXCEPT ![p].returned = 1]
  /\ ChatGoto(p, "idle")
  /\ UNCHANGED <<storeSide, archiveVars, handlerVars, closed, chunked, chatArg, chatWriter>>

ChatConcNext ==
  \/ \E p \in ChatSavers :
       \/ ChatCallSave(p)
       \/ ChatLock(p)
       \/ ChatWriteTranscript(p)
       \/ ChatReadInfo(p)
       \/ ChatTruncateInfo(p)
       \/ ChatWriteInfo(p)
       \/ ChatUnlock(p)
  \/ \E p \in ChatListers :
       \/ ChatCallList(p)
       \/ ChatRLock(p)
       \/ ChatListRead(p)
       \/ ChatRUnlock(p)

ChatConcSpec == Init /\ [][ChatConcNext]_vars

\* ---- ChunkText called on its own ----
MaxTextLen == 5

\* The texts of at most n units over a word, a sentence delimiter, a newline
\* and a space.
RECURSIVE TextsUpTo(_)
TextsUpTo(n) ==
  IF n = 0 THEN {<<>>}
  ELSE TextsUpTo(n - 1)
         \cup {Append(t, u) : t \in {x \in TextsUpTo(n - 1) : Len(x) = n - 1},
                              u \in {"A", ".", Newline, Space}}

ChunkTexts == TextsUpTo(MaxTextLen)
ChunkSizes == {2, 1000}
ChunkOverlaps == {0, 1}

Chunk(text, chunkSize, overlap) ==
  /\ chunked' = [called |-> TRUE, text |-> text, chunkSize |-> chunkSize,
                 overlap |-> overlap, chunks |-> ChunkText(text, chunkSize, overlap)]
  /\ UNCHANGED <<storeSide, archiveVars, handlerVars, closed, chatConcVars>>

\* The call of ChunkText that is going to be made.
ChunkCalls ==
  {[called |-> FALSE, text |-> text, chunkSize |-> chunkSize, overlap |-> overlap,
    chunks |-> <<>>] :
     text \in ChunkTexts, chunkSize \in ChunkSizes, overlap \in ChunkOverlaps}

ChunkInit == Constructed /\ modelPath = "./models" /\ chunked \in ChunkCalls

ChunkNext ==
  /\ ~chunked.called
  /\ Chunk(chunked.text, chunked.chunkSize, chunked.overlap)

ChunkSpec == ChunkInit /\ [][ChunkNext]_vars

\* ---- a text chunked, stored and searched for ----
\* Texts of two short paragraphs.
ExampleParagraphs ==
  {<<"Alpha", ".">>, <<"Beta", ".">>, <<"Hi", "!">>, <<"One", Space, "two", ".">>}
ExampleTexts ==
  {p1 \o <<Newline, Newline>> \o p2 : p1 \in ExampleParagraphs, p2 \in ExampleParagraphs}

UnitVector == BasisVec(Dim, 1, Scale)

\* The single fragment of the text as a document of its own.
ExampleDocument(id) ==
  [ID |-> id, Content |-> chunked.chunks[1],
   Metadata |-> [Source |-> <<"a.txt">>, Title |-> <<"a">>, Tags |-> << <<"txt">> >>,
                 Custom |-> [upload_time |-> <<"t">>],
                 ChunkID |-> 0, ChunkNum |-> Len(chunked.chunks)]]

\* The text is chunked with a target of 1000 and no overlap, its first
\* fragment is added to the empty store with the unit vector, and the store
\* is searched with the unit vector and limit 1.
ExampleNext ==
  \/ \E text \in ExampleTexts : Chunk(text, 1000, 0)
  \/ \E id \in Ids :
       /\ chunked.called
       /\ chunked.chunks # <<>>
       /\ DOMAIN db = {}
       /\ AddDocument(ExampleDocument(id), UnitVector, "ok")
  \/ SearchSimilarWithFilter(UnitVector, 1, "nil")

ExampleSpec == Init /\ [][ExampleNext]_vars

\* ---- the HTTP handlers (package api) ----
MaxUuid == 2
DefaultLimit == 5
ModelPaths == {"", "./models"}

\* What rand gives GetEmbedding for one text.
Embeddings == {BasisVec(Dim, 1, 1), ConstVec(Dim, 1)}

\* EmbeddingModel.GetEmbedding; vector is the random vector it would return.
GetEmbedding(path, vector) ==
  IF path = "" THEN [err |-> "not_initialised", vector |-> <<>>]
  ELSE [err |-> "nil", vector |-> vector]

ShortText == <<"Alpha", ".">>
LongText == <<Word600, Newline, Newline, Word600>>
DatabankRequests ==
  {[Name |-> <<"notes">>, Type |-> <<"text">>, Content |-> content] :
     content \in {<<>>, ShortText, LongText}}

LongMessage == [Role |-> "user", Content |-> <<Word600, Space, Word600>>, Time |-> ""]
ChatRequests ==
  {ChatHistory("c1", <<"Trip">>, <<LongMessage>>),
   ChatHistory("", <<>>, <<UserMessage>>),
   ChatHistory("c2", <<"Trip">>, <<>>)}
CharacterChatRequests ==
  {ChatHistory("c1", <<"Trip">>, <<UserMessage>>),
   ChatHistory("c1", <<"Plan">>, <<LongMessage>>),
   ChatHistory("_info", <<"Trip">>, <<UserMessage>>)}
SearchRequests == {[Query |-> q, Limit |-> l] : q \in {<<>>, <<"Alpha">>}, l \in {0, 1}}

\* docIDs of a handler: the ids uuid.New() gave to its first n fragments.
DocIDs(first, n) == [i \in 1..n |-> first + i - 1]

\* The loop over the chunks, the same in every upload handler: fragment i is
\* embedded and added; the first error ends the loop.  embedded counts the
\* calls of GetEmbedding, added lists the ids given to AddDocument, committed
\* those whose AddDocument returned nil.
RECURSIVE StoreChunksContinuing(_, _, _, _, _, _, _)
StoreChunksContinuing(d, f, docs, vectors, ios, path, i) ==
  LET first == IF docs = <<>> THEN 0 ELSE docs[1].ID
      embedding == GetEmbedding(path, vectors[i])
      stored == AddDocumentIn(d, f, docs[i], embedding.vector, ios[i])
  IN IF i > Len(docs)
       THEN [db |-> d, files |-> f, err |-> "nil", embedded |-> Len(docs),
             added |-> DocIDs(first, Len(docs)), committed |-> DocIDs(first, Len(docs))]
     ELSE IF stored.err # "nil"
       THEN [db |-> stored.db, files |-> stored.files, err |-> "store",
             embedded |-> i, added |-> DocIDs(first, i),
             committed |-> DocIDs(first, i - 1)]
     ELSE StoreChunksContinuing(stored.db, stored.files, docs, vectors, ios, path, i + 1)

RECURSIVE StoreChunks(_, _, _, _, _, _, _)
StoreChunks(d, f, docs, vectors, ios, path, i) ==
  LET first == IF docs = <<>> THEN 0 ELSE docs[1].ID
      embedding == GetEmbedding(path, vectors[i])
      stored == AddDocumentIn(d, f, docs[i], embedding.vector, ios[i])
  IN IF i > Len(docs)
       THEN [db |-> d, files |-> f, err |-> "nil", embedded |-> Len(docs),
             added |-> DocIDs(first, Len(docs)), committed |-> DocIDs(first, Len(docs))]
     ELSE IF embedding.err # "nil"
       THEN [db |-> d, files |-> f, err |-> "embedding", embedded |-> i,
             added |-> DocIDs(first, i - 1), committed |-> DocIDs(first, i - 1)]
     ELSE IF stored.err # "nil"
       THEN [db |-> stored.db, files |-> stored.files, err |-> "store",
             embedded |-> i, added |-> DocIDs(first, i),
             committed |-> DocIDs(first, i - 1)]
     ELSE StoreChunks(stored.db, stored.files, docs, vectors, ios, path, i + 1)

\* The response of an upload handler after its loop, and what it has called.
UploadServed(handler, archived, r, okBody) ==
  [handler |-> handler,
   status |-> IF r.err = "nil" THEN 200 ELSE 500,
   body |-> IF r.err = "nil" THEN okBody ELSE [error |-> r.err],
   calls |-> [archived |-> archived, embedded |-> r.embedded, added |-> r.added,
              committed |-> r.committed, searched |-> 0]]

Rejected(handler, status, error, archived) ==
  [handler |-> handler, status |-> status, body |-> [error |-> error],
   calls |-> [NoCalls EXCEPT !.archived = archived]]

\* The storage.Document an upload handler builds for fragment i of n
\* (i counts from 1 here, the loop index of the code from 0); with a ChunkID
\* that counts from 1 first.
FragmentCountingFromOne(docID, chunk, i, n, source, title, tags, custom) ==
  [ID |-> docID, Content |-> chunk,
   Metadata |-> [Source |-> source, Title |-> title, Tags |-> tags, Custom |-> custom,
                 ChunkID |-> i, ChunkNum |-> n]]

Fragment(docID, chunk, i, n, source, title, tags, custom) ==
  [ID |-> docID, Content |-> chunk,
   Metadata |-> [Source |-> source, Title |-> title, Tags |-> tags, Custom |-> custom,
                 ChunkID |-> i - 1, ChunkNum |-> n]]

\* The documents of one upload: fragment i of the chunks gets the id first + i.
Fragments(first, chunks, source, title, tags, custom) ==
  [i \in 1..Len(chunks) |->
     Fragment(first + i, chunks[i], i, Len(chunks), source, title, tags, custom)]

VectorChoices(n) == [1..n -> Embeddings]
IOChoices(n) == [1..n -> IOs]

\* The end of an upload handler: r is what its loop over the chunks gave.
Upload(handler, archived, first, r, okBody) ==
  /\ db' = r.db
  /\ files' = r.files
  /\ uuidCount' = first + r.embedded
  /\ served' = UploadServed(handler, archived, r, okBody)

handleDatabankUpload(req, vectors, ios) ==
  LET chunks == ChunkText(req.Content, 1000, 200)
      docs == Fragments(uuidCount, chunks, req.Type, req.Name,
                        << <<"databank">>, req.Type >>,
                        [upload_time |-> <<ToString(now)>>])
  IN /\ uuidCount + Len(vectors) <= MaxUuid
     /\ IF req.Content = <<>>
          THEN /\ served' = Rejected("databank_upload", 400, "empty_content", <<>>)
               /\ UNCHANGED <<db, files, uuidCount>>
          ELSE Upload("databank_upload", <<>>, uuidCount,
                      StoreChunks(db, files, docs, vectors, ios, modelPath, 1),
                      [message |-> "uploaded",
                       document_ids |-> DocIDs(uuidCount + 1, Len(vectors)),
                       chunks |-> Len(vectors)])
     /\ UNCHANGED <<last, concVars, archiveVars, modelPath, restVars>>

\* The transcript a chat handler works on: a missing id is a new uuid, a
\* missing title a default one.
Completed(chat, owner) ==
  ChatHistory(IF chat.ID = "" THEN "uuid-" \o ToString(uuidCount + 1) ELSE chat.ID,
              IF chat.Title = <<>> THEN owner \o <<RecordLabel, Space, ToString(now)>>
              ELSE chat.Title,
              chat.Messages)

ChatChunks(chat) == ProcessChatHistory(chat).chunks

\* handleChatUpload after its checks, on the completed transcript.
ChatUpload(chatHistory, first, vectors, ios) ==
  Upload("chat_upload", <<>>, first,
         StoreChunks(db, files,
                     Fragments(first, ChatChunks(chatHistory), <<"chat">>,
                               chatHistory.Title,
                               << <<"chat">>, <<"conversation">> >>,
                               CreateChatMetadata(chatHistory, now)),
                     vectors, ios, modelPath, 1),
         [message |-> "uploaded", chat_id |-> chatHistory.ID,
          document_ids |-> DocIDs(first + 1, Len(vectors)), chunks |-> Len(vectors)])

handleChatUpload(chat, vectors, ios) ==
  LET first == IF chat.ID = "" THEN uuidCount + 1 ELSE uuidCount
  IN /\ first + Len(vectors) <= MaxUuid
     /\ IF Len(chat.Messages) = 0
          THEN /\ served' = Rejected("chat_upload", 400, "empty_chat", <<>>)
               /\ UNCHANGED <<db, files, uuidCount>>
          ELSE ChatUpload(Completed(chat, <<>>), first, vectors, ios)
     /\ UNCHANGED <<last, concVars, archiveVars, modelPath, restVars>>

\* handleCharacterChatUpload after its checks: saved is what SaveChat gave.
CharacterChatUpload(character, chatHistory, saved, first, t, vectors, ios) ==
  /\ chatDirs' = saved.dirs
  /\ chatFiles' = saved.files
  /\ IF saved.err # "nil"
       THEN /\ served' = Rejected("character_chat_upload", 500, "save_chat",
                                  <<[character |-> character, id |-> chatHistory.ID,
                                     chat |-> chatHistory, err |-> saved.err]>>)
            /\ uuidCount' = first
            /\ UNCHANGED <<db, files>>
       ELSE Upload("character_chat_upload",
                   <<[character |-> character, id |-> chatHistory.ID,
                     chat |-> chatHistory, err |-> "nil"]>>,
                   first,
                   StoreChunks(db, files,
                               Fragments(first, ChatChunks(chatHistory),
                                         <<"character_chat">>, chatHistory.Title,
                                         << <<"chat">>, <<"character">>, <<character>> >>,
                                         [character |-> <<character>>]
                                           @@ CreateChatMetadata(chatHistory, t)),
                               vectors, ios, modelPath, 1),
                   [message |-> "uploaded", character |-> character,
                    chat_id |-> chatHistory.ID,
                    document_ids |-> DocIDs(first + 1, Len(vectors)),
                    chunks |-> Len(vectors)])

\* t is the clock when SaveChat reads it, chatIo what the file system does to
\* SaveChat.
handleCharacterChatUpload(character, chat, t, chatIo, vectors, ios) ==
  LET first == IF chat.ID = "" THEN uuidCount + 1 ELSE uuidCount
  IN /\ first + Len(vectors) <= MaxUuid
     /\ now < t
     /\ t \in Times
     /\ chatIo = "mkdirFail" => character \notin chatDirs
     /\ IF character = ""
          THEN /\ served' = Rejected("character_chat_upload", 400, "no_character", <<>>)
               /\ UNCHANGED <<db, files, uuidCount, chatDirs, chatFiles, now>>
        ELSE IF Len(chat.Messages) = 0
          THEN /\ served' = Rejected("character_chat_upload", 400, "empty_chat", <<>>)
               /\ UNCHANGED <<db, files, uuidCount, chatDirs, chatFiles, now>>
        ELSE /\ now' = IF chatIo = "mkdirFail" THEN now ELSE t
             /\ CharacterChatUpload(character, Completed(chat, <<character, OwnerLabel>>),
                                    SaveChatIn(chatDirs, chatFiles, character,
                                               Completed(chat, <<character, OwnerLabel>>),
                                               t, chatIo),
                                    first, t, vectors, ios)
     /\ UNCHANGED <<last, concVars, chatLast, modelPath, restVars>>

\* vector is what GetEmbedding would return for the query.
handleSearch(req, vector) ==
  LET limit == IF req.Limit <= 0 THEN DefaultLimit ELSE req.Limit
      embedding == GetEmbedding(modelPath, vector)
  IN /\ IF req.Query = <<>>
          THEN served' = Rejected("search", 400, "empty_query", <<>>)
        ELSE IF embedding.err # "nil"
          THEN served' = [handler |-> "search", status |-> 500,
                          body |-> [error |-> "embedding"],
                          calls |-> [NoCalls EXCEPT !.embedded = 1]]
        ELSE \E r \in SearchSimilarWithFilterIn(db, files, embedding.vector, limit, "nil") :
               served' = [handler |-> "search", status |-> 200,
                          body |-> [query |-> req.Query,
                                    results |-> [i \in 1..Len(r.docs) |->
                                                   [document |-> r.docs[i],
                                                    score |-> r.scores[i]]]],
                          calls |-> [NoCalls EXCEPT !.embedded = 1, !.searched = 1]]
     /\ UNCHANGED <<db, files, last, concVars, archiveVars, modelPath, uuidCount, restVars>>

\* The chunks a request will be cut into, for choosing one vector and one
\* file-system outcome per chunk.
DatabankCount(req) == Len(ChunkText(req.Content, 1000, 200))
ChatCount(chat, owner) ==
  IF Len(chat.Messages) = 0 THEN 0 ELSE Len(ChatChunks(Completed(chat, owner)))

UploadSaveIOs == {"ok", "writeFail", "infoWriteFail"}

\* The routes of RegisterRoutes and RegisterChatRoutes, which never touch the
\* chat archive.
IngestNext ==
  \/ \E req \in DatabankRequests :
       \E vectors \in VectorChoices(DatabankCount(req)), ios \in IOChoices(DatabankCount(req)) :
         handleDatabankUpload(req, vectors, ios)
  \/ \E chat \in ChatRequests :
       \E vectors \in VectorChoices(ChatCount(chat, <<>>)),
          ios \in IOChoices(ChatCount(chat, <<>>)) :
         handleChatUpload(chat, vectors, ios)
  \/ \E req \in SearchRequests, vector \in Embeddings : handleSearch(req, vector)

\* The same routes together with those of RegisterCharacterChatRoutes.
CharacterIngestNext ==
  \/ IngestNext
  \/ \E character \in Characters, chat \in CharacterChatRequests, chatIo \in UploadSaveIOs :
       \E vectors \in VectorChoices(ChatCount(chat, <<character, OwnerLabel>>)),
          ios \in IOChoices(ChatCount(chat, <<character, OwnerLabel>>)) :
         handleCharacterChatUpload(character, chat, now + 1, chatIo, vectors, ios)

\* The handlers may have been registered with a model without a path.
IngestInit == Opened /\ modelPath \in ModelPaths

IngestSpec == IngestInit /\ [][IngestNext]_vars
CharacterIngestSpec == IngestInit /\ [][CharacterIngestNext]_vars

\* ---- DELETE /chat/:id ----
\* The ids handleChatDelete collects: the listed documents with the tag "chat"
\* whose Custom["chat_id"] is the id of the route.
DocsToDelete(d, chatID) ==
  MapSeq(SelectSeq(ListDocumentsIn(d),
                   LAMBDA doc : /\ Satisfies("chat", doc)
                                /\ "chat_id" \in DOMAIN doc.Metadata.Custom
                                /\ doc.Metadata.Custom["chat_id"] = <<chatID>>),
         LAMBDA doc : doc.ID)

\* Its loop over docsToDelete from place i on: an error of DeleteDocument is
\* printed and the loop goes on, deleteCount counts the calls that returned nil.
RECURSIVE DeleteDocuments(_, _, _, _, _, _)
DeleteDocuments(d, f, docsToDelete, ios, i, deleteCount) ==
  LET deleted == DeleteDocumentIn(d, f, docsToDelete[i], ios[i])
  IN IF i > Len(docsToDelete)
       THEN [db |-> d, files |-> f, deleteCount |-> deleteCount]
       ELSE DeleteDocuments(deleted.db, deleted.files, docsToDelete, ios, i + 1,
                            IF deleted.err = "nil" THEN deleteCount + 1 ELSE deleteCount)

\* served.calls.deleting is the docsToDelete of the handler.
handleChatDelete(chatID, ios) ==
  LET docsToDelete == DocsToDelete(db, chatID)
      r == DeleteDocuments(db, files, docsToDelete, ios, 1, 0)
  IN /\ IF chatID = ""
          THEN /\ served' = Rejected("chat_delete", 400, "empty_chat_id", <<>>)
               /\ UNCHANGED <<db, files>>
        ELSE IF closed
          THEN /\ served' = Rejected("chat_delete", 500, "list_documents", <<>>)
               /\ UNCHANGED <<db, files>>
        ELSE /\ db' = r.db
             /\ files' = r.files
             /\ served' = [handler |-> "chat_delete", status |-> 200,
                            body |-> [message |-> "deleted",
                                      deleted_count |-> r.deleteCount],
                            calls |-> NoCalls @@ [deleting |-> docsToDelete]]
     /\ UNCHANGED <<last, concVars, archiveVars, modelPath, uuidCount, restVars>>

DeleteChatIDs == {"c1", "uuid-1", ""}

\* The routes of RegisterRoutes and RegisterChatRoutes with the deletion of a
\* chat among them.
DeleteNext ==
  \/ IngestNext
  \/ \E chatID \in DeleteChatIDs :
       \E ios \in IOChoices(Len(DocsToDelete(db, chatID))) : handleChatDelete(chatID, ios)

DeleteSpec == IngestInit /\ [][DeleteNext]_vars

\* ---- DELETE /api/character/:character/chat/:id ----
\* A handler that, after the archive, deletes the fragments of the chat from
\* the vector store as handleChatDelete does.
handleCharacterChatDeleteWithFragments(character, chatID, io) ==
  LET deleted == DeleteChatIn(chatFiles, character, chatID, io)
      docsToDelete == DocsToDelete(db, chatID)
      r == DeleteDocuments(db, files, docsToDelete,
                           [i \in 1..Len(docsToDelete) |-> "ok"], 1, 0)
  IN /\ IF character = "" \/ chatID = ""
          THEN /\ served' = Rejected("character_chat_delete", 400, "no_character_or_id",
                                     <<>>)
               /\ UNCHANGED <<chatFiles, db, files>>
        ELSE IF deleted.err # "nil"
          THEN /\ served' = Rejected("character_chat_delete", 500, "delete_chat", <<>>)
               /\ chatFiles' = deleted.files
               /\ UNCHANGED <<db, files>>
        ELSE /\ served' = [handler |-> "character_chat_delete", status |-> 200,
                            body |-> [message |-> "deleted", character |-> character,
                                      chat_id |-> chatID],
                            calls |-> NoCalls]
             /\ chatFiles' = deleted.files
             /\ db' = r.db
             /\ files' = r.files
     /\ UNCHANGED <<last, concVars, chatDirs, now, chatLast, modelPath, uuidCount,
                    restVars>>

\* io is what the file system does to DeleteChat.  The handler is given the
\* chat store only.
handleCharacterChatDelete(character, chatID, io) ==
  LET deleted == DeleteChatIn(chatFiles, character, chatID, io)
  IN /\ IF character = "" \/ chatID = ""
          THEN /\ served' = Rejected("character_chat_delete", 400, "no_character_or_id",
                                     <<>>)
               /\ UNCHANGED chatFiles
        ELSE IF deleted.err # "nil"
          THEN /\ served' = Rejected("character_chat_delete", 500, "delete_chat", <<>>)
               /\ chatFiles' = deleted.files
        ELSE /\ served' = [handler |-> "character_chat_delete", status |-> 200,
                            body |-> [message |-> "deleted", character |-> character,
                                      chat_id |-> chatID],
                            calls |-> NoCalls]
             /\ chatFiles' = deleted.files
     /\ UNCHANGED <<db, files, last, concVars, chatDirs, now, chatLast, modelPath,
                    uuidCount, restVars>>

CharacterDeleteChatIDs == {"c1", "_info", ""}
CharacterDeleteRequests ==
  {ChatHistory("c1", <<"Trip">>, <<UserMessage>>),
   ChatHistory("_info", <<"Trip">>, <<UserMessage>>)}

\* The upload and the deletion of a character's chat.
CharacterDeleteNext ==
  \/ \E character \in Characters, chat \in CharacterDeleteRequests :
       \E vectors \in VectorChoices(ChatCount(chat, <<character, OwnerLabel>>)),
          ios \in IOChoices(ChatCount(chat, <<character, OwnerLabel>>)) :
         handleCharacterChatUpload(character, chat, now + 1, "ok", vectors, ios)
  \/ \E character \in Characters \cup {""}, chatID \in CharacterDeleteChatIDs,
        io \in DeleteIOs :
       handleCharacterChatDelete(character, chatID, io)

CharacterDeleteSpec == Init /\ [][CharacterDeleteNext]_vars

\* ==== claims ====
ResultIds(docs) == {docs[i].ID : i \in 1..Len(docs)}

\* The score search gives the stored document id for the query q.
ScoreOf(q, id) == cosineSimilarity(q, GetVectorIn(files, id).vector)

Searchable == {id \in DOMAIN db : GetVectorIn(files, id).err = "nil"}

ValidString(s) == \A i \in 1..Len(s) : s[i] # Invalid

ValidDocument(doc) ==
  /\ ValidString(doc.Content)
  /\ ValidString(doc.Metadata.Source)
  /\ ValidString(doc.Metadata.Title)
  /\ \A i \in 1..Len(doc.Metadata.Tags) : ValidString(doc.Metadata.Tags[i])
  /\ \A k \in DOMAIN doc.Metadata.Custom : ValidString(doc.Metadata.Custom[k])

\* C1: a search with a predicate returns only documents that satisfy the
\* predicate, and a search without a predicate ranks over the full corpus
\* (with no limit it returns every document whose vector can be read).
C1_SearchRespectsPredicate ==
  last.op = "search" =>
    /\ \A i \in 1..Len(last.docs) : Satisfies(last.filter, last.docs[i])
    /\ (last.filter = "nil" /\ last.limit = 0) => ResultIds(last.docs) = Searchable

\* C2: an add whose vector length differs from the store's dimension fails
\* with InvalidInput, and every persisted vector has exactly Dim components
\* (Dim * 4 bytes).
C2_DimensionEnforced ==
  /\ (last.op = "add" /\ Len(last.vector) # Dim) => last.err = "invalid_input"
  /\ \A id \in DOMAIN files : Len(files[id]) = Dim * 4

\* C3: after a successful add of vector v under id i, get_vector(i) returns
\* a vector equal to v component by component.
C3_VectorRoundTrip ==
  (last.op = "add" /\ last.err = "nil") =>
    GetVectorIn(files, last.id) = [err |-> "nil", vector |-> last.vector]

NotStored(d, f, i) ==
  /\ GetDocumentIn(d, i).err = "not_found"
  /\ GetVectorIn(f, i).err # "nil"
  /\ i \notin ResultIds(ListDocumentsIn(d))
  /\ \A q \in Queries, limit \in Limits, filter \in Filters :
       \A r \in SearchSimilarWithFilterIn(d, f, q, limit, filter) :
         i \notin ResultIds(r.docs)

C6_DeleteMissingIsError ==
  [][(last'.op = "delete" /\ last'.id \notin DOMAIN db /\ last'.id \notin DOMAIN files)
       => last'.err # "nil"]_vars

\* C7: a search with limit k > 0 returns at most k results, with scores that
\* never increase along the result, and no searchable document that was left
\* out scores strictly higher than a returned one.
C7_TopKDescending ==
  (last.op = "search" /\ last.limit > 0) =>
    /\ Len(last.docs) <= last.limit
    /\ Len(last.scores) = Len(last.docs)
    /\ \A i, j \in 1..Len(last.scores) :
         i < j => ~Greater(last.scores[j], last.scores[i])
    /\ \A id \in Searchable \ ResultIds(last.docs) :
         \A i \in 1..Len(last.scores) :
           ~Greater(ScoreOf(last.vector, id), last.scores[i])

C7_Witness ==
  /\ last.op = "search" /\ last.limit = 1
  /\ Len(last.docs) = 1
  /\ \E id \in Searchable \ ResultIds(last.docs) :
       Greater(last.scores[1], ScoreOf(last.vector, id))

\* C8: an id has a persisted document record if and only if it has a
\* persisted vector.
C8_DocumentIffVector == DOMAIN db = DOMAIN files

\* A goroutine between the return of its Lock and its Unlock.
InWrite(p) == pc[p] \in {"add_doc", "add_vec", "add_unlock", "del_doc", "del_vec", "del_unlock"}

\* A goroutine between the return of the RLock of its search or list and the
\* RUnlock of it.
InRead(p) ==
  pc[p] \in {"s_scan", "gv_rlock", "gv_rlock_wait", "gv_read", "gv_runlock", "s_sort",
             "gd_rlock", "gd_rlock_wait", "gd_read", "gd_runlock", "s_runlock",
             "l_read", "l_runlock"}

\* C9: while a writer is between its Lock and its Unlock no other writer and
\* no reader is inside its own operation, so no search or list runs while an
\* add or a delete has done the first of its two writes and not the second.
C9_WriterExcludesAll ==
  \A p \in Procs :
    InWrite(p) =>
      /\ wOwner = p
      /\ \A q \in Procs \ {p} : ~InWrite(q) /\ ~InRead(q)

C9_Witness ==
  \E p \in Writers, q \in Searchers :
    /\ pc[p] = "add_vec"
    /\ pc[q] = "s_rlock_wait"
    /\ arg[p].id \in DOMAIN db /\ arg[p].id \notin DOMAIN files

\* C10: under fair scheduling every search that has been called returns.
C10_SearchReturns ==
  \A p \in Searchers : (pc[p] = "s_rlock") ~> (pc[p] = "idle")

\* ---- claims on the chat archive ----
\* The ids get(character, id) returns a transcript for.
Persisted(f, character) ==
  {id \in ChatIds : GetChatIn(f, character, id, "ok").err = "nil"}

\* The ids of the entries list_chats(character) returns.
Listed(f, character) ==
  {ListChatsIn(f, character, "ok").chats[i].ID :
     i \in 1..Len(ListChatsIn(f, character, "ok").chats)}

\* C11: as long as every save and delete so far has succeeded,
\* list_chats(character) succeeds and holds exactly one entry for each
\* transcript id persisted for the character and no entry for another id.
C11_IndexReflectsTranscripts ==
  \A character \in Characters :
    /\ ListChatsIn(chatFiles, character, "ok").err = "nil"
    /\ Listed(chatFiles, character) = Persisted(chatFiles, character)
    /\ Len(ListChatsIn(chatFiles, character, "ok").chats)
         = Cardinality(Listed(chatFiles, character))
\* C12: right after a save that returned nil, get of the saved id returns a
\* transcript with the id, the title and the messages that were saved, in
\* the same order.
C12_SaveThenGet ==
  (chatLast.op = "save" /\ chatLast.err = "nil") =>
    /\ GetChatIn(chatFiles, chatLast.character, chatLast.id, "ok").err = "nil"
    /\ GetChatIn(chatFiles, chatLast.character, chatLast.id, "ok").out = chatLast.chat

\* C13: a save whose transcript write fails returns an error and leaves the
\* character's index file as it was.
C13_IndexAfterTranscript ==
  [][(chatLast'.op = "save" /\ chatLast'.err = "write_chat") =>
       LET infoPath == getCharacterInfoPath(chatLast'.character)
       IN /\ (infoPath \in DOMAIN chatFiles') = (infoPath \in DOMAIN chatFiles)
          /\ infoPath \in DOMAIN chatFiles => chatFiles'[infoPath] = chatFiles[infoPath]]_vars

\* The index entry of id, for an id list_chats shows.
Entry(f, character, id) ==
  LET chats == ListChatsIn(f, character, "ok").chats
  IN chats[CHOOSE i \in 1..Len(chats) : chats[i].ID = id]

\* C14: a successful save of an id the index already shows keeps created_at,
\* in the stored transcript and in the index entry, at the value the entry
\* had, and sets updated_at of both to the time of this save, which is not
\* earlier than the one before.
C14_CreatedAtKept ==
  [][(/\ chatLast'.op = "save"
      /\ chatLast'.err = "nil"
      /\ now' # now
      /\ chatLast'.id \in Listed(chatFiles, chatLast'.character)) =>
       LET character == chatLast'.character
           id == chatLast'.id
           was == Entry(chatFiles, character, id)
           stored == UnmarshalSaveData(chatFiles'[getChatPath(character, id)])
       IN /\ id \in Listed(chatFiles', character)
          /\ Entry(chatFiles', character, id).CreatedAt = was.CreatedAt
          /\ Entry(chatFiles', character, id).UpdatedAt = now'
          /\ was.UpdatedAt <= now'
          /\ stored.err = "nil"
          /\ stored.info.CreatedAt = was.CreatedAt
          /\ stored.info.UpdatedAt = now']_vars

\* C15: delete of an id that neither get nor list_chats knows returns the
\* not-found error and leaves every file of the archive as it was.
C15_DeleteMissingChat ==
  [][(/\ chatLast'.op = "delete"
      /\ chatLast' # chatLast
      /\ chatLast'.id \notin Persisted(chatFiles, chatLast'.character)
      /\ chatLast'.id \notin Listed(chatFiles, chatLast'.character)) =>
       /\ chatLast'.err = "not_found"
       /\ chatFiles' = chatFiles
       /\ chatDirs' = chatDirs]_vars

\* ---- ingestion: what one upload request leaves behind ----
UploadHandlers == {"databank_upload", "chat_upload", "character_chat_upload"}
ChatUploadHandlers == {"chat_upload", "character_chat_upload"}

\* The document ids the body of the last response carries.
BodyDocumentIds ==
  IF "document_ids" \in DOMAIN served.body THEN served.body.document_ids ELSE <<>>

\* C16: when embedding or storing fragment k of an upload fails, no fragment
\* after k is embedded or added, and the error response carries exactly the
\* document ids of the fragments before k, those already committed to the store
\* (a response without the field counts as carrying no ids).
C16_PartialFailureCarriesIds ==
  (served.handler \in UploadHandlers /\ served.status = 500) =>
    /\ served.calls.embedded <= Len(served.calls.committed) + 1
    /\ Len(served.calls.added) <= Len(served.calls.committed) + 1
    /\ BodyDocumentIds = served.calls.committed

\* C17: every upload of a chat transcript that reaches the chunking has first
\* archived the transcript, so that however the embedding or storing ends,
\* GetChat(character, id) returns the transcript in full.
C17_ArchivedBeforeFragments ==
  (served.handler \in ChatUploadHandlers /\ served.calls.embedded > 0) =>
    /\ served.calls.archived # <<>>
    /\ served.calls.archived[1].err = "nil"
    /\ GetChatIn(chatFiles, served.calls.archived[1].character,
                 served.calls.archived[1].id, "ok").err = "nil"
    /\ GetChatIn(chatFiles, served.calls.archived[1].character,
                 served.calls.archived[1].id, "ok").out
         = <<served.calls.archived[1].chat>>

\* C18: a failure of GetEmbedding ends the request at once and is not retried:
\* with a provider that fails, a search is answered 500 after one embedding
\* call and no search of the store, an upload is answered 500 after one
\* embedding call and no AddDocument, and no document ever reaches the store.
C18_EmbeddingFailureAborts ==
  modelPath = "" =>
    /\ db = <<>>
    /\ files = <<>>
    /\ served.calls.embedded > 0 =>
         /\ served.status = 500
         /\ served.body = [error |-> "embedding"]
         /\ served.calls.embedded = 1
         /\ served.calls.searched = 0
         /\ served.calls.added = <<>>

C18_Witness ==
  /\ modelPath = ""
  /\ served.handler = "databank_upload"
  /\ served.status = 500
  /\ served.calls.embedded = 1
  /\ served.calls.added = <<>>

\* The documents of the last upload that are in the store, by fragment number.
StoredFragment(i) == Unmarshal(db[served.calls.added[i]])
StoredFragments == {i \in 1..Len(served.calls.added) : served.calls.added[i] \in DOMAIN db}

\* C19: every stored document has 0 <= ChunkID < ChunkNum; the documents of one
\* upload share ChunkNum, source and title; and after a fully successful upload
\* the ChunkIDs are 0 .. ChunkNum-1 in fragment order.
C19_ChunkIndexInRange ==
  /\ \A id \in DOMAIN db :
       /\ 0 <= Unmarshal(db[id]).Metadata.ChunkID
       /\ Unmarshal(db[id]).Metadata.ChunkID < Unmarshal(db[id]).Metadata.ChunkNum
  /\ served.handler \in UploadHandlers =>
       /\ \A i, j \in StoredFragments :
            /\ StoredFragment(i).Metadata.ChunkNum = StoredFragment(j).Metadata.ChunkNum
            /\ StoredFragment(i).Metadata.Source = StoredFragment(j).Metadata.Source
            /\ StoredFragment(i).Metadata.Title = StoredFragment(j).Metadata.Title
       /\ \A i \in StoredFragments : StoredFragment(i).Metadata.ChunkID = i - 1
       /\ served.status = 200 =>
            /\ StoredFragments = 1..Len(served.calls.added)
            /\ \A i \in StoredFragments :
                 StoredFragment(i).Metadata.ChunkNum = Len(served.calls.added)

C19_Witness ==
  /\ served.handler \in UploadHandlers
  /\ served.status = 200
  /\ Len(served.calls.added) = 2
  /\ StoredFragment(2).Metadata.ChunkID = 1
  /\ StoredFragment(2).Metadata.ChunkNum = 2

\* ---- AddDocument under an id that is in use ----
\* The documents with the given id that ListDocuments returns from d.
ListedWithId(d, id) == {i \in 1..Len(ListDocumentsIn(d)) : ListDocumentsIn(d)[i].ID = id}

\* C20: AddDocument is an upsert by id: an add of (d2, v2) that returns nil under
\* an id that already holds a document and a vector leaves GetDocument(id)
\* returning d2, GetVector(id) returning v2 and ListDocuments holding exactly
\* one document with that id, and adding the same (d2, v2) once more leaves the
\* store as it is.
C20_AddIsUpsert ==
  [][(/\ last'.op = "add"
      /\ last'.err = "nil"
      /\ last' # last
      /\ last'.id \in DOMAIN db
      /\ last'.id \in DOMAIN files) =>
       /\ GetDocumentIn(db', last'.id).err = "nil"
       /\ GetDocumentIn(db', last'.id).docs = last'.doc
       /\ GetVectorIn(files', last'.id).err = "nil"
       /\ GetVectorIn(files', last'.id).vector = last'.vector
       /\ Cardinality(ListedWithId(db', last'.id)) = 1
       /\ AddDocumentIn(db', files', last'.doc[1], last'.vector, "ok")
            = [db |-> db', files |-> files', err |-> "nil"]]_vars

\* ---- ties in a search ----
\* Two similarities that are equal as numbers.
Tied(s, t) == ~Greater(s, t) /\ ~Greater(t, s)

\* The places of id in the sequence of similarities s.
PlacesOf(s, id) == {i \in 1..Len(s) : s[i].id = id}

\* C21: documents of equal similarity come back in the order in which they
\* were inserted (so that a repeated search returns the same sequence): after
\* an add under an id that was not in the store, no search, even one whose
\* sort keeps equal elements in scan order, puts the new document before an
\* older document of the same similarity.
C21_TiesInInsertionOrder ==
  [][(/\ last'.op = "add"
      /\ last'.err = "nil"
      /\ last' # last
      /\ last'.id \notin DOMAIN db) =>
       \A q \in Queries :
         \A i \in PlacesOf(StableSort(Similarities(db', files', q)), last'.id) :
           \A j \in 1..Len(StableSort(Similarities(db', files', q))) :
             (/\ j # i
              /\ Tied(StableSort(Similarities(db', files', q))[i].similarity,
                      StableSort(Similarities(db', files', q))[j].similarity))
               => j < i]_vars

\* ---- a store with more documents than the default limit ----
LimitIds == 1..(DefaultLimit + 1)

\* The document and the vector stored under id: the vectors have whole-number
\* components, and no two of them have the same similarity to LimitQuery.
LimitDocument(id) == Document(id, ChatBody)
LimitVector(id) == [i \in 1..Dim |-> IF i = 1 THEN id * Scale ELSE Scale]
LimitQuery == BasisVec(Dim, 1, Scale)
LimitLimits == {-1, 0, 1, DefaultLimit}

LimitNext ==
  \/ \E id \in LimitIds : AddDocument(LimitDocument(id), LimitVector(id), "ok")
  \/ \E limit \in LimitLimits : SearchSimilarWithFilter(LimitQuery, limit, "nil")

LimitSpec == Init /\ [][LimitNext]_vars

\* C22: a search of the store with a limit of zero or less returns what the
\* search with the default limit returns, not the whole corpus.
C22_NonPositiveLimitIsDefault ==
  (/\ last.op = "search"
   /\ last.err = "nil"
   /\ last.limit <= 0) =>
    [docs |-> last.docs, scores |-> last.scores]
      \in SearchSimilarWithFilterIn(db, files, last.vector, DefaultLimit, last.filter)

\* ---- vector files a search cannot use ----
\* C23: a search leaves out every document whose vector file is missing or is
\* not exactly four bytes for each component of the query, and still succeeds.
C23_UnusableVectorLeftOut ==
  (/\ last.op = "search"
   /\ last.err = "nil") =>
    \A i \in 1..Len(last.docs) :
      /\ last.docs[i].ID \in DOMAIN files
      /\ Len(files[last.docs[i].ID]) = 4 * Len(last.vector)

\* ---- the store and its Close ----
CloseNext ==
  \/ \E doc \in ConcDocuments, vector \in ConcVectors, io \in IOs :
       AddDocument(doc, vector, io)
  \/ \E id \in Ids : GetDocument(id)
  \/ \E id \in Ids : GetVector(id)
  \/ ListDocuments
  \/ \E q \in ConcQueries, limit \in ConcLimits, filter \in ConcFilters :
       SearchSimilarWithFilter(q, limit, filter)
  \/ \E id \in Ids, io \in IOs : DeleteDocument(id, io)
  \/ Close

CloseSpec == Init /\ [][CloseNext]_vars

\* C24: once the store is closed, every operation (add, get, get_vector,
\* delete, list, search) returns an error and changes nothing that is
\* persisted.
C24_ClosedStoreRefuses ==
  [][(closed /\ last'.op # "close") =>
       /\ last'.err # "nil"
       /\ db' = db
       /\ files' = files]_vars

\* ---- success and failed steps ----
\* C25: no operation reports success after one of its steps has failed: when
\* the deletion of a chat answers 200, every fragment it set out to delete is
\* gone, record and vector file.
C25_DeleteReportsFailure ==
  [][(/\ served'.handler = "chat_delete"
      /\ served'.status = 200) =>
       \A i \in 1..Len(served'.calls.deleting) :
         /\ served'.calls.deleting[i] \notin DOMAIN db'
         /\ served'.calls.deleting[i] \notin DOMAIN files']_vars

\* ---- one id under two characters ----
\* C26: the transcripts of one id under two characters are two transcripts: a
\* save or a delete of (c1, id) leaves what get(c2, id) and list_chats(c2)
\* return unchanged, for every character c2 other than c1.
C26_CharactersAreApart ==
  [][(/\ chatLast' # chatLast
      /\ chatLast'.op \in {"save", "delete"}) =>
       \A c2 \in TwoCharacters \ {chatLast'.character} :
         /\ GetChatIn(chatFiles', c2, chatLast'.id, "ok")
              = GetChatIn(chatFiles, c2, chatLast'.id, "ok")
         /\ ListChatsIn(chatFiles', c2, "ok") = ListChatsIn(chatFiles, c2, "ok")]_vars

\* ---- the chat archive under concurrent callers ----
\* Between Lock and Unlock of SaveChat; between RLock and RUnlock of ListChats.
InSave(p) == chatPc[p] \in {"write", "readInfo", "openInfo", "writeInfo", "unlock"}
InList(p) == chatPc[p] \in {"read", "runlock"}

\* The ids in the index of the character on disk.
IndexedIds ==
  {ListChatsIn(chatFiles, ChatConcCharacter, "ok").chats[i].ID :
     i \in 1..Len(ListChatsIn(chatFiles, ChatConcCharacter, "ok").chats)}

\* C27: a save on a character excludes every other save and every reader;
\* when saves of different ids have returned, the index holds an entry for
\* each of them; and a concurrent list_chats never reads a partially written
\* index.
C27_SavesSerialised ==
  /\ \A p \in ChatSavers :
       InSave(p) => /\ \A q \in ChatSavers \ {p} : ~InSave(q)
                    /\ \A l \in ChatListers : ~InList(l)
  /\ (\A p \in ChatSavers : ~InSave(p)) =>
       \A p \in ChatSavers :
         chatLoc[p].returned = 1 => ChatConcChat(p).ID \in IndexedIds
  /\ \A l \in ChatListers :
       /\ chatLoc[l].err = "nil"
       /\ \A i \in 1..Len(chatLoc[l].chats) :
            chatLoc[l].chats[i].ID \in {ChatConcChat(p).ID : p \in ChatSavers}

\* Both saves have returned, and a list has returned one entry while the
\* second save was waiting or on its way.
C27_Witness ==
  /\ \A p \in ChatSavers : chatLoc[p].returned = 1 /\ chatPc[p] = "idle"
  /\ \E l \in ChatListers : chatLoc[l].returned = 1 /\ Len(chatLoc[l].chats) = 1
  /\ Cardinality(IndexedIds) = 2

\* ---- what ChunkText returns ----
\* C28: chunking returns at least one fragment for every text that is not
\* empty, a text of separators or whitespace only included, and no fragment
\* for the empty text.
C28_NonEmptyTextHasFragment ==
  chunked.called =>
    /\ chunked.text # <<>> => Len(chunked.chunks) >= 1
    /\ chunked.text = <<>> => Len(chunked.chunks) = 0

\* The fragments one after the other.
RECURSIVE Flatten(_)
Flatten(chunks) == IF chunks = <<>> THEN <<>> ELSE Head(chunks) \o Flatten(Tail(chunks))

\* A text without its spaces and newlines.
Unspaced(text) == SelectSeq(text, LAMBDA u : u \notin {Space, Newline})

Count(text, u) == Cardinality({i \in 1..Len(text) : text[i] = u})

\* C29: the fragments keep the order of the text and lose none of the
\* characters of its paragraphs and sentences, repeated sentence delimiters
\* included: without overlap the fragments, read one after the other and
\* without their spaces and newlines, are the text without its spaces and
\* newlines; with overlap every word and delimiter occurs in the fragments at
\* least as often as in the text.
C29_NothingDropped ==
  chunked.called =>
    /\ chunked.overlap = 0 =>
         Unspaced(Flatten(chunked.chunks)) = Unspaced(chunked.text)
    /\ \A u \in {"A", "."} :
         Count(Flatten(chunked.chunks), u) >= Count(chunked.text, u)

\* ---- the example of a text of two paragraphs ----
\* The similarity 1.
IsOne(s) == s.dot > 0 /\ s.dot * s.dot = s.normA * s.normB

\* C30: a text of two short paragraphs, chunked with a target of 1000 and an
\* overlap of 0, gives one fragment equal to the text; added with the unit
\* vector, it is the one result, with score 1, of a search with the unit
\* vector and limit 1.
C30_TwoParagraphExample ==
  /\ (chunked.called /\ chunked.text \in ExampleTexts
        /\ chunked.chunkSize = 1000 /\ chunked.overlap = 0) =>
       chunked.chunks = <<chunked.text>>
  /\ (last.op = "search" /\ last.vector = UnitVector /\ last.limit = 1
        /\ DOMAIN db # {}) =>
       /\ Len(last.docs) = 1
       /\ last.docs[1].ID \in DOMAIN db
       /\ last.docs[1] = Unmarshal(db[last.docs[1].ID])
       /\ last.docs[1].Content \in ExampleTexts
       /\ last.docs[1].Metadata.ChunkNum = 1
       /\ IsOne(last.scores[1])

C30_Witness ==
  /\ chunked.called
  /\ chunked.text = <<"Alpha", ".", Newline, Newline, "Beta", ".">>
  /\ last.op = "search"
  /\ Len(last.docs) = 1
  /\ last.docs[1].Content = chunked.text
  /\ IsOne(last.scores[1])

\* ---- listing an archive without transcripts ----
\* A step in which SaveChat returned nil.
SavedStep == chatLast'.op = "save" /\ chatLast'.err = "nil"

\* C31: list_chats of a character that never had a transcript saved returns
\* the empty sequence and no error, and list_characters of an archive in
\* which no transcript has been saved returns the empty set and no error: a
\* character without a directory lists as empty, and as long as no save has
\* succeeded list_characters goes on returning the empty set.
C31_NothingSavedListsEmpty ==
  [][/\ \A character \in (Characters \cup {"Nobody"}) \ chatDirs' :
          ListChatsIn(chatFiles', character, "ok") = [err |-> "nil", chats |-> <<>>]
     /\ (ListCharactersIn(chatDirs, "ok").names = {} /\ ~SavedStep) =>
          ListCharactersIn(chatDirs', "ok") = [err |-> "nil", names |-> {}]]_vars

\* ---- the characters of the archive ----
\* The transcript files of a character: every file in its directory but the
\* index.
TranscriptPaths(f, character) ==
  {path \in DOMAIN f : /\ Len(path) = 3
                       /\ path[2] = character
                       /\ path # getCharacterInfoPath(character)}

\* C38: list_characters returns exactly the characters that have had a
\* successful save, whether or not they still have a transcript: a save that
\* succeeds adds its character, no other step adds or removes one; and after
\* the delete that removes the last transcript of a character list_chats of
\* that character returns the empty sequence.
C38_CharactersOutliveTranscripts ==
  [][/\ SavedStep =>
          ListCharactersIn(chatDirs', "ok").names
            = ListCharactersIn(chatDirs, "ok").names \cup {chatLast'.character}
     /\ ~SavedStep =>
          ListCharactersIn(chatDirs', "ok") = ListCharactersIn(chatDirs, "ok")
     /\ (/\ chatLast'.op = "delete"
         /\ chatLast'.err = "nil"
         /\ TranscriptPaths(chatFiles', chatLast'.character) = {}) =>
          /\ chatLast'.character \in ListCharactersIn(chatDirs', "ok").names
          /\ ListChatsIn(chatFiles', chatLast'.character, "ok")
               = [err |-> "nil", chats |-> <<>>]]_vars

\* ---- the fragments and the target size ----
SeqRange(q) == {q[i] : i \in 1..Len(q)}

\* The sentences of a paragraph read from the left: each one ends with the
\* first delimiter after its start, the last one with the paragraph.
RECURSIVE SentencesFrom(_, _, _)
SentencesFrom(text, i, cur) ==
  IF i > Len(text) THEN (IF cur = <<>> THEN <<>> ELSE <<cur>>)
  ELSE IF text[i] \in {".", "!", "?"} \cup SeqRange(WideDelimiters)
    THEN <<Append(cur, text[i])>> \o SentencesFrom(text, i + 1, <<>>)
  ELSE SentencesFrom(text, i + 1, Append(cur, text[i]))

Sentences(text) == SentencesFrom(text, 1, <<>>)

\* The sentences of the text that are longer than the chunk size of the call:
\* sentences of the paragraphs that are longer than the chunk size.
OversizeSentences ==
  {s \in UNION {SeqRange(Sentences(p)) :
                  p \in {q \in SeqRange(Split(chunked.text, <<Newline, Newline>>)) :
                           ByteLen(q) > chunked.chunkSize}} :
     ByteLen(s) > chunked.chunkSize}

\* The words of a text: what stands between its spaces and newlines.
RECURSIVE WordsFrom(_, _, _)
WordsFrom(text, i, cur) ==
  IF i > Len(text) THEN (IF cur = <<>> THEN <<>> ELSE <<cur>>)
  ELSE IF text[i] \in {Space, Newline}
    THEN (IF cur = <<>> THEN <<>> ELSE <<cur>>) \o WordsFrom(text, i + 1, <<>>)
  ELSE WordsFrom(text, i + 1, Append(cur, text[i]))

Words(text) == WordsFrom(text, 1, <<>>)

LastWords(text, n) ==
  SubSeq(Words(text), Len(Words(text)) - min(n, Len(Words(text))) + 1, Len(Words(text)))

\* C32: after a fragment is emitted because the next paragraph or sentence
\* would exceed the target size, the next buffer starts with exactly the last
\* min(overlap, w) whitespace-delimited words of that fragment, and the
\* paragraph or sentence follows as a separate word: of two fragments in a
\* row, neither of them a sentence longer than the target, the words of the
\* second begin with the last overlap words of the first.
C32_OverlapWordsCarried ==
  (chunked.called /\ chunked.overlap > 0) =>
    \A i \in 1..(Len(chunked.chunks) - 1) :
      (chunked.chunks[i] \notin OversizeSentences
         /\ chunked.chunks[i + 1] \notin OversizeSentences) =>
        /\ Len(Words(chunked.chunks[i + 1]))
             >= Len(LastWords(chunked.chunks[i], chunked.overlap))
        /\ SubSeq(Words(chunked.chunks[i + 1]), 1,
                  Len(LastWords(chunked.chunks[i], chunked.overlap)))
             = LastWords(chunked.chunks[i], chunked.overlap)

\* C33: a sentence longer than the target size is a fragment of its own,
\* equal to the sentence: not cut, and not joined to the buffer before it, to
\* the overlap words or to the sentence after it.
C33_LongSentenceAlone ==
  chunked.called =>
    \A s \in OversizeSentences : \E i \in 1..Len(chunked.chunks) : chunked.chunks[i] = s

\* A sentence longer than the target comes after a fragment from which
\* overlap words were taken.
C33_Witness ==
  /\ chunked.called
  /\ chunked.overlap > 0
  /\ \E i \in 2..Len(chunked.chunks) :
       /\ chunked.chunks[i] \in OversizeSentences
       /\ chunked.chunks[i - 1] \notin OversizeSentences

\* C34: every fragment is at most as long as the target size, except a
\* fragment that is one sentence longer than the target; the overlap words
\* together with the next paragraph or sentence are no exception.
C34_FragmentWithinTarget ==
  chunked.called =>
    \A i \in 1..Len(chunked.chunks) :
      \/ ByteLen(chunked.chunks[i]) <= chunked.chunkSize
      \/ chunked.chunks[i] \in OversizeSentences

\* C35: a transcript and its character's index are kept in different places,
\* whatever the transcript's id: after a successful save the place of the
\* transcript holds the transcript and the place of the index holds the index.
C35_TranscriptApartFromIndex ==
  [][SavedStep =>
       /\ getChatPath(chatLast'.character, chatLast'.id)
            # getCharacterInfoPath(chatLast'.character)
       /\ UnmarshalSaveData(chatFiles'[getChatPath(chatLast'.character,
                                                   chatLast'.id)]).err = "nil"
       /\ UnmarshalChats(chatFiles'[getCharacterInfoPath(chatLast'.character)]).err
            = "nil"]_vars

\* C36: deleting a transcript from the archive leaves the vector store as it
\* was: every document and vector is kept, and every search returns what it
\* returned before the deletion.
C36_ArchiveDeleteKeepsStore ==
  [][served'.handler = "character_chat_delete" =>
       /\ db' = db
       /\ files' = files
       /\ \A id \in DOMAIN db :
            /\ GetDocumentIn(db', id) = GetDocumentIn(db, id)
            /\ GetVectorIn(files', id) = GetVectorIn(files, id)
       /\ \A q \in Embeddings :
            SearchSimilarWithFilterIn(db', files', q, DefaultLimit, "nil")
              = SearchSimilarWithFilterIn(db, files, q, DefaultLimit, "nil")]_vars

\* The handler has deleted a transcript whose fragments are in the store.
C36_Witness ==
  /\ served.handler = "character_chat_delete"
  /\ served.status = 200
  /\ getChatPath(served.body.character, served.body.chat_id) \notin DOMAIN chatFiles
  /\ DocsToDelete(db, served.body.chat_id) # <<>>
  /\ \E q \in Embeddings :
       \E r \in SearchSimilarWithFilterIn(db, files, q, DefaultLimit, "nil") :
         \E i \in 1..Len(r.docs) :
           /\ "chat_id" \in DOMAIN r.docs[i].Metadata.Custom
           /\ r.docs[i].Metadata.Custom["chat_id"] = <<served.body.chat_id>>

\* The stored fragments that were cut from the transcript chatID of character.
ChatFragments(d, character, chatID) ==
  {id \in DOMAIN d :
     /\ "chat_id" \in DOMAIN Unmarshal(d[id]).Metadata.Custom
     /\ Unmarshal(d[id]).Metadata.Custom["chat_id"] = <<chatID>>
     /\ "character" \in DOMAIN Unmarshal(d[id]).Metadata.Custom
     /\ Unmarshal(d[id]).Metadata.Custom["character"] = <<character>>}

\* C37: an ingestion gives every fragment an id no stored document has and
\* changes no stored document; when a transcript of the same character and id
\* had been ingested before, the archive afterwards holds one transcript and
\* one index entry for it, and the store the fragments of both ingestions.
C37_IngestAgainAddsFragments ==
  [][served'.handler = "character_chat_upload" =>
       /\ \A id \in DOMAIN db :
            /\ GetDocumentIn(db', id) = GetDocumentIn(db, id)
            /\ GetVectorIn(files', id) = GetVectorIn(files, id)
       /\ SeqRange(served'.calls.added) \cap DOMAIN db = {}
       /\ (/\ served'.status = 200
           /\ ChatFragments(db, served'.body.character, served'.body.chat_id) # {}) =>
            /\ ChatFragments(db', served'.body.character, served'.body.chat_id)
                 = ChatFragments(db, served'.body.character, served'.body.chat_id)
                     \cup SeqRange(served'.body.document_ids)
            /\ GetChatIn(chatFiles', served'.body.character, served'.body.chat_id,
                         "ok").err = "nil"
            /\ ListChatsIn(chatFiles', served'.body.character, "ok").err = "nil"
            /\ Len(SelectSeq(ListChatsIn(chatFiles', served'.body.character, "ok").chats,
                             LAMBDA info : info.ID = served'.body.chat_id)) = 1]_vars

====
